---- MODULE Spec2Model ----
(***************************************************************************)
(* A model of the whale WebAssembly interpreter: the LEB128 codec          *)
(* (src/src/leb128.rs) and the binary decoder (src/src/parser.rs).         *)
(*                                                                         *)
(* Machine integers are bit vectors: a u32 / i32 is a sequence of 32 bits  *)
(* and a u64 / i64 a sequence of 64 bits, least significant bit first, so  *)
(* that shifts lose the bits the hardware loses.  Bytes are the integers   *)
(* 0..255.                                                                 *)
(***************************************************************************)
EXTENDS Integers, Sequences, FiniteSets, TLC

VARIABLES
    pc,        \* position of the driver: which call has been made
    input,     \* the input drawn for this run (a value to encode, or bytes)
    buf,       \* the byte buffer handed to the codec / held by the Parser
    wr,        \* result of the last write_* call
    rd,        \* result of the last read_* call
    cursor,    \* Parser.cursor
    sections,  \* the sections parse() has produced so far, in order
    outcome,   \* how Parser::parse ended: "running", "ok", "err" or "panic";
               \* how the last instantiation ended
    store,     \* the Store
    module_instances,  \* the module instances returned so far, in order
    calls,     \* the number of calls of allocate_module on the store, or
               \* of invoke on the interpreter
    stack      \* Interpreter.stack: the entries of the Stack, the top last

vars == <<pc, input, buf, wr, rd, cursor, sections, outcome,
          store, module_instances, calls, stack>>

(***************************************************************************)
(* Bounds of the model.                                                    *)
(***************************************************************************)
\* values to encode: every bit pattern with at most MaxSetBits bits set, or
\* at most MaxSetBits bits clear, and the integers 0..MaxSmall
MaxSetBits == 1
MaxSmall == 300
\* raw buffers to decode: up to MaxCont continuation bytes, then a tail
MaxCont == 10
\* padded encodings: up to MaxPad redundant groups after a canonical encoding
MaxPad == 5

(***************************************************************************)
(* Bit vectors.                                                            *)
(***************************************************************************)
W32 == 32
W64 == 64

Zero(w) == [k \in 1..w |-> 0]

Min(a, b) == IF a <= b THEN a ELSE b

\* b as uN: the byte b zero-extended to w bits
ByteBits(b, w) == [k \in 1..w |-> IF k <= 8 THEN (b \div (2 ^ (k - 1))) % 2 ELSE 0]

\* the small natural n (n < 2^30) as a w-bit vector
IntBits(n, w) == [k \in 1..w |-> IF k <= 30 THEN (n \div (2 ^ (k - 1))) % 2 ELSE 0]

\* v << s for s < width: the bits shifted past the width are lost
Shl(v, s) == [k \in 1..Len(v) |-> IF k > s THEN v[k - s] ELSE 0]

\* v >> s on an unsigned integer
ShrLogical(v, s) == [k \in 1..Len(v) |-> IF k + s <= Len(v) THEN v[k + s] ELSE 0]

\* v >> s on a signed integer: the sign bit is copied in
ShrArith(v, s) == [k \in 1..Len(v) |-> IF k + s <= Len(v) THEN v[k + s] ELSE v[Len(v)]]

BitOr(a, b) == [k \in 1..Len(a) |-> IF a[k] = 1 \/ b[k] = 1 THEN 1 ELSE 0]

BitXor(a, b) == [k \in 1..Len(a) |-> IF a[k] # b[k] THEN 1 ELSE 0]

BitAnd(a, b) == [k \in 1..Len(a) |-> IF a[k] = 1 /\ b[k] = 1 THEN 1 ELSE 0]

\* two's-complement negation: the bits above the lowest set bit are inverted
Neg(v) ==
    [k \in 1..Len(v) |->
        IF \E j \in 1..(k - 1) : v[j] = 1 THEN 1 - v[k] ELSE v[k]]

\* (v & 0x7F) as u8
Low7(v) ==
    v[1] + 2 * v[2] + 4 * v[3] + 8 * v[4] + 16 * v[5] + 32 * v[6] + 64 * v[7]

\* u32::ilog2 of a non-zero value: the index of the highest set bit, from 0
ilog2(v) == (CHOOSE k \in 1..Len(v) : v[k] = 1 /\ \A j \in (k + 1)..Len(v) : v[j] = 0) - 1

(***************************************************************************)
(* Results: Ok(value, bytes) or Err.                                       *)
(***************************************************************************)
Err == [ok |-> FALSE]
Ok(v, n) == [ok |-> TRUE, val |-> v, n |-> n]

(***************************************************************************)
(* leb128.rs                                                               *)
(***************************************************************************)
MAX_LEB128_LEN_32 == 5
MAX_LEB128_LEN_64 == 10

\* ((x << 1) ^ (x >> 31)) as u32, x an i32
zig_zag(x) == BitXor(Shl(x, 1), ShrArith(x, 31))

\* decode_zig_zag_u32 with the negation forgotten
decode_zig_zag_u32_no_neg(x) ==
    BitXor(ShrLogical(x, 1), BitAnd(x, IntBits(1, W32)))

\* ((x >> 1) as i32) ^ -((x & 1) as i32), x a u32
decode_zig_zag_u32(x) ==
    BitXor(ShrLogical(x, 1), Neg(BitAnd(x, IntBits(1, W32))))

\* ((x >> 1) as i64) ^ -((x & 1) as i64), x a u64
decode_zig_zag_u64(x) ==
    BitXor(ShrLogical(x, 1), Neg(BitAnd(x, IntBits(1, W64))))

\* bits = x.max(1).ilog2() + 1;  (9 * bits + 64) / 64
size_u32(x) ==
    LET bits == (IF x = Zero(W32) THEN 0 ELSE ilog2(x)) + 1
    IN  (9 * bits + 64) \div 64

\* the loop of write_u32 from index i (0-based) on: the buffer and the count,
\* or Err when the first MAX_LEB128_LEN_32 bytes of the buffer are used up
RECURSIVE write_u32_loop(_, _, _)
write_u32_loop(b, i, x) ==
    IF i >= Len(b) \/ i >= MAX_LEB128_LEN_32
    THEN [ok |-> FALSE, buf |-> b]
    ELSE LET byte == Low7(x)
             x1   == ShrLogical(x, 7)
             more == IF x1 # Zero(W32) THEN 1 ELSE 0
             b1   == [b EXCEPT ![i + 1] = byte + 128 * more]
         IN  IF more = 0
             THEN [ok |-> TRUE, buf |-> b1, n |-> i + 1]
             ELSE write_u32_loop(b1, i + 1, x1)

\* write_u32 without its ensure!: the loop runs on any buffer
write_u32_unchecked(b, x) == write_u32_loop(b, 0, x)

\* write_u32(buf, x): the buffer afterwards and Ok(n), or Err
write_u32(b, x) ==
    IF ~(size_u32(x) <= Len(b))
    THEN [ok |-> FALSE, buf |-> b]
    ELSE write_u32_loop(b, 0, x)

write_i32(b, x) == write_u32(b, zig_zag(x))

\* the loop of read_u32 from index i on, with the accumulator x and shift s
RECURSIVE read_u32_loop(_, _, _, _)
read_u32_loop(b, i, x, s) ==
    IF i >= Len(b)
    THEN Err
    ELSE LET byte == b[i + 1]
         IN  IF ~(i < MAX_LEB128_LEN_32)
             THEN Err
             ELSE IF byte < 128
                  THEN IF ~(i # MAX_LEB128_LEN_32 \/ byte <= 1)
                       THEN Err
                       ELSE Ok(BitOr(x, Shl(ByteBits(byte, W32), s)), i + 1)
                  ELSE read_u32_loop(b, i + 1,
                                     BitOr(x, Shl(ByteBits(byte % 128, W32), s)),
                                     s + 7)

\* read_u32 without the bound on the number of bytes
RECURSIVE read_u32_unbounded_loop(_, _, _, _)
read_u32_unbounded_loop(b, i, x, s) ==
    IF i >= Len(b)
    THEN Err
    ELSE LET byte == b[i + 1]
         IN  IF byte < 128
             THEN Ok(BitOr(x, Shl(ByteBits(byte, W32), s)), i + 1)
             ELSE read_u32_unbounded_loop(b, i + 1,
                                          BitOr(x, Shl(ByteBits(byte % 128, W32), s)),
                                          s + 7)

read_u32_unbounded(b) == read_u32_unbounded_loop(b, 0, Zero(W32), 0)

\* read_u32 refusing an encoding that ends in a redundant zero group
RECURSIVE read_u32_canonical_loop(_, _, _, _)
read_u32_canonical_loop(b, i, x, s) ==
    IF i >= Len(b)
    THEN Err
    ELSE LET byte == b[i + 1]
         IN  IF ~(i < MAX_LEB128_LEN_32)
             THEN Err
             ELSE IF byte < 128
                  THEN IF i > 0 /\ byte = 0
                       THEN Err
                       ELSE Ok(BitOr(x, Shl(ByteBits(byte, W32), s)), i + 1)
                  ELSE read_u32_canonical_loop(b, i + 1,
                                               BitOr(x, Shl(ByteBits(byte % 128, W32), s)),
                                               s + 7)

read_u32_canonical(b) == read_u32_canonical_loop(b, 0, Zero(W32), 0)

read_u32(b) == read_u32_loop(b, 0, Zero(W32), 0)

read_i32(b) ==
    LET r == read_u32(b)
    IN  IF r.ok THEN Ok(decode_zig_zag_u32(r.val), r.n) ELSE Err

RECURSIVE read_u64_loop(_, _, _, _)
read_u64_loop(b, i, x, s) ==
    IF i >= Len(b)
    THEN Err
    ELSE LET byte == b[i + 1]
         IN  IF ~(i < MAX_LEB128_LEN_64)
             THEN Err
             ELSE IF byte < 128
                  THEN IF ~(i # MAX_LEB128_LEN_64 \/ byte <= 1)
                       THEN Err
                       ELSE Ok(BitOr(x, Shl(ByteBits(byte, W64), s)), i + 1)
                  ELSE read_u64_loop(b, i + 1,
                                     BitOr(x, Shl(ByteBits(byte % 128, W64), s)),
                                     s + 7)

read_u64(b) == read_u64_loop(b, 0, Zero(W64), 0)

read_i64(b) ==
    LET r == read_u64(b)
    IN  IF r.ok THEN Ok(decode_zig_zag_u64(r.val), r.n) ELSE Err

(***************************************************************************)
(* parser.rs: the cursor primitives.                                       *)
(*                                                                         *)
(* Every parsing operator takes the buffer b and the cursor c and returns  *)
(* [st, cur, val]: st is "ok", "err" (an Err returned through `?`) or      *)
(* "panic" (the thread unwinds), cur is the cursor the Parser is left      *)
(* with and val the value of an Ok.                                        *)
(***************************************************************************)
RECURSIVE Parser(_, _, _, _)

POk(c, v) == [st |-> "ok", cur |-> c, val |-> v]
PErr(c) == [st |-> "err", cur |-> c, val |-> "none"]
PPanic(c) == [st |-> "panic", cur |-> c, val |-> "none"]

\* The `?` operator is written out: LET r == <call> IN IF r.st # "ok" THEN r
\* ELSE <the rest>.

\* `as usize` of a u32.  Values of 2^30 and more are all represented by 2^30:
\* the buffers of the model are shorter than that, so any such length or
\* count fails as the exact one does.
RECURSIVE BitsToNat(_, _)
BitsToNat(v, k) == IF k = 0 THEN 0 ELSE v[k] * (2 ^ (k - 1)) + BitsToNat(v, k - 1)

U32ToNat(v) == IF v[31] = 1 \/ v[32] = 1 THEN 2 ^ 30 ELSE BitsToNat(v, 30)

\* u32::MAX
U32_MAX == [k \in 1..W32 |-> 1]

\* Parser::eof: TRUE for Ok(()), FALSE for the "EOF." error
eof(b, c, bytes) ==
    IF bytes = 0 THEN c < Len(b) ELSE c + bytes <= Len(b)

read_u8(b, c) ==
    IF ~eof(b, c, 0) THEN PErr(c) ELSE POk(c + 1, b[c + 1])

\* Parser::read_u32 advancing by the longest encoding instead of by the
\* number of bytes read
Parser_read_u32_fixed_width(b, c) ==
    IF ~eof(b, c, 0) THEN PErr(c)
    ELSE LET n == Min(Len(b) - c, MAX_LEB128_LEN_32)
             r == read_u32(SubSeq(b, c + 1, c + n))
         IN  IF ~r.ok THEN PErr(c) ELSE POk(c + MAX_LEB128_LEN_32, r.val)

Parser_read_u32(b, c) ==
    IF ~eof(b, c, 0) THEN PErr(c)
    ELSE LET n == Min(Len(b) - c, MAX_LEB128_LEN_32)
             r == read_u32(SubSeq(b, c + 1, c + n))
         IN  IF ~r.ok THEN PErr(c) ELSE POk(c + r.n, r.val)

Parser_read_i32(b, c) ==
    IF ~eof(b, c, 0) THEN PErr(c)
    ELSE LET n == Min(Len(b) - c, MAX_LEB128_LEN_32)
             r == read_i32(SubSeq(b, c + 1, c + n))
         IN  IF ~r.ok THEN PErr(c) ELSE POk(c + r.n, r.val)

Parser_read_i64(b, c) ==
    IF ~eof(b, c, 0) THEN PErr(c)
    ELSE LET n == Min(Len(b) - c, MAX_LEB128_LEN_64)
             r == read_i64(SubSeq(b, c + 1, c + n))
         IN  IF ~r.ok THEN PErr(c) ELSE POk(c + r.n, r.val)

read_slice(b, c, len) ==
    IF ~eof(b, c, len) THEN PErr(c) ELSE POk(c + len, SubSeq(b, c + 1, c + len))

\* f32::from_le_bytes / f64::from_le_bytes: the value is its bytes
read_f32(b, c) == Parser("read_slice", b, c, 4)

read_f64(b, c) == Parser("read_slice", b, c, 8)

\* the number of bytes of the UTF-8 sequence that the byte x starts, 0 for a
\* byte that starts none
utf8_char_width(x) ==
    IF x < 128 THEN 1
    ELSE IF x >= 194 /\ x <= 223 THEN 2
    ELSE IF x >= 224 /\ x <= 239 THEN 3
    ELSE IF x >= 240 /\ x <= 244 THEN 4
    ELSE 0

\* std::str::from_utf8: TRUE when the bytes s, from index i on, are
\* well-formed UTF-8: every byte that is no continuation byte starts a
\* sequence that is complete, and every continuation byte belongs to the
\* sequence started by the closest byte before it that is none
from_utf8(s, i) ==
    LET in(j, lo, hi) == j <= Len(s) /\ s[j] >= lo /\ s[j] <= hi
        cont(j) == in(j, 128, 191)
        second(j) ==
            CASE s[j] = 224 -> in(j + 1, 160, 191)
              [] s[j] = 237 -> in(j + 1, 128, 159)
              [] s[j] = 240 -> in(j + 1, 144, 191)
              [] s[j] = 244 -> in(j + 1, 128, 143)
              [] OTHER -> cont(j + 1)
        starts(j) ==
            LET w == utf8_char_width(s[j])
            IN  /\ w >= 1
                /\ w >= 2 => second(j)
                /\ \A d \in 2..(w - 1) : cont(j + d)
        belongs(j) ==
            \E d \in 1..3 :
                /\ j - d >= i
                /\ utf8_char_width(s[j - d]) > d
                /\ \A e \in 1..(d - 1) : cont(j - e)
    IN  \A j \in i..Len(s) : IF cont(j) THEN belongs(j) ELSE starts(j)

\* 5.2: Values.  A name is kept as its bytes.
parse_name(b, c) ==
    (LET n == Parser("Parser_read_u32", b, c, <<>>) IN IF n.st # "ok" THEN n ELSE
    (LET slice == Parser("read_slice", b, n.cur, U32ToNat(n.val)) IN IF slice.st # "ok" THEN slice ELSE
    IF from_utf8(slice.val, 1) THEN slice ELSE PErr(slice.cur)))

(***************************************************************************)
(* parser.rs, 5.3: Types.                                                  *)
(***************************************************************************)
parse_reference_type(b, c) ==
    (LET r == Parser("read_u8", b, c, <<>>) IN IF r.st # "ok" THEN r ELSE
    CASE r.val = 112 -> POk(r.cur, "FuncRef")
      [] r.val = 111 -> POk(r.cur, "ExternRef")
      [] OTHER -> PErr(r.cur))

parse_value_type(b, c) ==
    (LET r == Parser("read_u8", b, c, <<>>) IN IF r.st # "ok" THEN r ELSE
    CASE r.val = 127 -> POk(r.cur, "I32")
      [] r.val = 126 -> POk(r.cur, "I64")
      [] r.val = 125 -> POk(r.cur, "F32")
      [] r.val = 124 -> POk(r.cur, "F64")
      [] r.val = 123 -> POk(r.cur, "V128")
      [] r.val = 112 -> POk(r.cur, "FuncRef")
      [] r.val = 111 -> POk(r.cur, "ExternRef")
      [] OTHER -> PErr(r.cur))

\* parse_vec(parse): `kind` names the method that parses an element

RECURSIVE parse_vec_loop(_, _, _, _, _)
parse_vec_loop(kind, b, c, left, items) ==
    IF left = 0 THEN POk(c, items)
    ELSE (LET r == Parser(kind, b, c, <<>>) IN IF r.st # "ok" THEN r ELSE
         parse_vec_loop(kind, b, r.cur, left - 1, Append(items, r.val)))

parse_vec(kind, b, c) ==
    (LET len == Parser("Parser_read_u32", b, c, <<>>) IN IF len.st # "ok" THEN len ELSE
    parse_vec_loop(kind, b, len.cur, U32ToNat(len.val), <<>>))

parse_result_type(b, c) == Parser("parse_vec", b, c, "parse_value_type")

parse_function_type(b, c) ==
    (LET r == Parser("read_u8", b, c, <<>>) IN IF r.st # "ok" THEN r ELSE
    IF r.val # 96 THEN PErr(r.cur)
    ELSE (LET arg_type == Parser("parse_result_type", b, r.cur, <<>>) IN IF arg_type.st # "ok" THEN arg_type ELSE
         (LET return_type == Parser("parse_result_type", b, arg_type.cur, <<>>) IN IF return_type.st # "ok" THEN return_type ELSE
         POk(return_type.cur, [params |-> arg_type.val, results |-> return_type.val]))))

parse_limit(b, c) ==
    (LET flag == Parser("read_u8", b, c, <<>>) IN IF flag.st # "ok" THEN flag ELSE
    IF flag.val \notin {0, 1} THEN PErr(flag.cur)
    ELSE (LET min == Parser("Parser_read_u32", b, flag.cur, <<>>) IN IF min.st # "ok" THEN min ELSE
         IF flag.val = 1
         THEN (LET max == Parser("Parser_read_u32", b, min.cur, <<>>) IN IF max.st # "ok" THEN max ELSE
              POk(max.cur, [min |-> min.val, max |-> max.val]))
         ELSE POk(min.cur, [min |-> min.val, max |-> U32_MAX])))

parse_memory_type(b, c) == Parser("parse_limit", b, c, <<>>)

parse_table_type(b, c) ==
    (LET rt == Parser("parse_reference_type", b, c, <<>>) IN IF rt.st # "ok" THEN rt ELSE
    (LET limit == Parser("parse_limit", b, rt.cur, <<>>) IN IF limit.st # "ok" THEN limit ELSE
    POk(limit.cur, [element_reference_type |-> rt.val, limit |-> limit.val])))

parse_global_type(b, c) ==
    (LET vt == Parser("parse_value_type", b, c, <<>>) IN IF vt.st # "ok" THEN vt ELSE
    (LET m == Parser("read_u8", b, vt.cur, <<>>) IN IF m.st # "ok" THEN m ELSE
    CASE m.val = 0 -> POk(m.cur, [value_type |-> vt.val, mutability |-> "Const"])
      [] m.val = 1 -> POk(m.cur, [value_type |-> vt.val, mutability |-> "Var"])
      [] OTHER -> PErr(m.cur)))

(***************************************************************************)
(* parser.rs, 5.4: Instructions.                                           *)
(***************************************************************************)
TERM_END_BYTE == 11
TERM_ELSE_BYTE == 5

\* an Instruction: the name of its variant and its fields in order
Instr(name, args) == [op |-> name, args |-> args]

\* the variants of opcodes 0x45 .. 0xC4, which carry no field
NumericNames ==
    << "I32EqZero", "I32Eq", "I32Ne", "I32LtSigned", "I32LtUnsigned",
       "I32GtSigned", "I32GtUnsigned", "I32LeSigned", "I32LeUnsigned",
       "I32GeSigned", "I32GeUnsigned", "I64EqZero", "I64Eq", "I64Ne",
       "I64LtSigned", "I64LtUnsigned", "I64GtSigned", "I64GtUnsigned",
       "I64LeSigned", "I64LeUnsigned", "I64GeSigned", "I64GeUnsigned",
       "F32Eq", "F32Ne", "F32Lt", "F32Gt", "F32Le", "F32Ge", "F64Eq",
       "F64Ne", "F64Lt", "F64Gt", "F64Le", "F64Ge", "I32CountLeadingZeros",
       "I32CountTrailingZeros", "I32PopCount", "I32Add", "I32Sub", "I32Mul",
       "I32DivSigned", "I32DivUnsigned", "I32RemainderSigned",
       "I32RemainderUnsigned", "I32And", "I32Or", "I32Xor", "I32Shl",
       "I32ShrSigned", "I32ShrUnsigned", "I32RotateLeft", "I32RotateRight",
       "I64CountLeadingZeros", "I64CountTrailingZeros", "I64PopCount",
       "I64Add", "I64Sub", "I64Mul", "I64DivSigned", "I64DivUnsigned",
       "I64RemainderSigned", "I64RemainderUnsigned", "I64And", "I64Or",
       "I64Xor", "I64Shl", "I64ShrSigned", "I64ShrUnsigned", "I64RotateLeft",
       "I64RotateRight", "F32Abs", "F32Neg", "F32Ceil", "F32Floor",
       "F32Trunc", "F32Nearest", "F32Sqrt", "F32Add", "F32Sub", "F32Mul",
       "F32Div", "F32Min", "F32Max", "F32CopySign", "F64Abs", "F64Neg",
       "F64Ceil", "F64Floor", "F64Trunc", "F64Nearest", "F64Sqrt", "F64Add",
       "F64Sub", "F64Mul", "F64Div", "F64Min", "F64Max", "F64CopySign",
       "I32WrapI64", "I32TruncF32Signed", "I32TruncF32Unsigned",
       "I32TruncF64Signed", "I32TruncF64Unsigned", "I64ExtendI32Signed",
       "I64ExtendI32Unsigned", "I64TruncF32Signed", "I64TruncF32Unsigned",
       "I64TruncF64Signed", "I64TruncF64Unsigned", "F32ConvertI32Signed",
       "F32ConvertI32Unsigned", "F32ConvertI64Signed",
       "F32ConvertI64Unsigned", "F32DemoteF64", "F64ConvertI32Signed",
       "F64ConvertI32Unsigned", "F64ConvertI64Signed",
       "F64ConvertI64Unsigned", "F64PromoteF32", "I32ReinterpretF32",
       "I64ReinterpretF64", "F32ReinterpretI32", "F64ReinterpretI64",
       "I32Extend8Signed", "I32Extend16Signed", "I64Extend8Signed",
       "I64Extend16Signed", "I64Extend32Signed" >>

\* the variants of 0xFC 0 .. 0xFC 7
SaturatedNames ==
    << "I32TruncSaturatedF32Signed", "I32TruncSaturatedF32Unsigned",
       "I32TruncSaturatedF64Signed", "I32TruncSaturatedF64Unsigned",
       "I64TruncSaturatedF32Signed", "I64TruncSaturatedF32Unsigned",
       "I64TruncSaturatedF64Signed", "I64TruncSaturatedF64Unsigned" >>

\* the opcodes that are followed by one u32 index, and their variants
IndexNames ==
    [o \in {12, 13, 16, 210, 32, 33, 34, 35, 36, 37, 38} |->
        CASE o = 12 -> "Br"
          [] o = 13 -> "BrIf"
          [] o = 16 -> "Call"
          [] o = 210 -> "RefFunc"
          [] o = 32 -> "LocalGet"
          [] o = 33 -> "LocalSet"
          [] o = 34 -> "LocalTee"
          [] o = 35 -> "GlobalGet"
          [] o = 36 -> "GlobalSet"
          [] o = 37 -> "TableGet"
          [] o = 38 -> "TableSet"]

\* the variants of the loads and stores 0x28 .. 0x3E
MemArgNames ==
    << "I32Load", "I64Load", "F32Load", "F64Load", "I32Load8Signed",
       "I32Load8Unsigned", "I32Load16Signed", "I32Load16Unsigned",
       "I64Load8Signed", "I64Load8Unsigned", "I64Load16Signed",
       "I64Load16Unsigned", "I64Load32Signed", "I64Load32Unsigned",
       "I32Store", "I64Store", "F32Store", "F64Store", "I32Store8",
       "I32Store16", "I64Store8", "I64Store16", "I64Store32" >>

Empty == [bt |-> "Empty"]
SingleValue(t) == [bt |-> "SingleValue", t |-> t]
TypeIndex(x) == [bt |-> "TypeIndex", x |-> x]

\* self.buffer[self.cursor] is an unchecked index: it panics at the end of
\* the buffer.  A byte that is no value type has been consumed by
\* parse_value_type when read_i32 starts.
parse_block_type(b, c) ==
    IF c >= Len(b) THEN PPanic(c)
    ELSE IF b[c + 1] = 64 THEN POk(c + 1, Empty)
    ELSE LET vt == Parser("parse_value_type", b, c, <<>>)
         IN  IF vt.st = "ok" THEN POk(vt.cur, SingleValue(vt.val))
             ELSE (LET x == Parser("Parser_read_i32", b, vt.cur, <<>>) IN IF x.st # "ok" THEN x ELSE
                  POk(x.cur, TypeIndex(x.val)))

parse_memarg(b, c) ==
    (LET align == Parser("Parser_read_u32", b, c, <<>>) IN IF align.st # "ok" THEN align ELSE
    (LET offset == Parser("Parser_read_u32", b, align.cur, <<>>) IN IF offset.st # "ok" THEN offset ELSE
    POk(offset.cur, [align |-> align.val, offset |-> offset.val])))


RECURSIVE parse_expression_loop(_, _, _)
parse_expression_loop(b, c, instructions) ==
    (LET opcode == Parser("read_u8", b, c, <<>>) IN IF opcode.st # "ok" THEN opcode ELSE
    IF opcode.val = TERM_END_BYTE THEN POk(opcode.cur, instructions)
    ELSE (LET instruction == Parser("parse_instruction", b, opcode.cur, opcode.val) IN IF instruction.st # "ok" THEN instruction ELSE
         parse_expression_loop(b, instruction.cur,
                               Append(instructions, instruction.val))))

parse_expression(b, c) == parse_expression_loop(b, c, <<>>)

\* the loop of parse_if_else: the else byte sets the flag and is then handed
\* to parse_instruction like any other opcode
RECURSIVE parse_if_else_loop(_, _, _, _, _)
parse_if_else_loop(b, c, if_exprs, else_exprs, else_flag) ==
    (LET opcode == Parser("read_u8", b, c, <<>>) IN IF opcode.st # "ok" THEN opcode ELSE
    LET flag == else_flag \/ opcode.val = TERM_ELSE_BYTE
    IN  IF opcode.val = TERM_END_BYTE
        THEN POk(opcode.cur, <<if_exprs, else_exprs>>)
        ELSE (LET instruction == Parser("parse_instruction", b, opcode.cur, opcode.val) IN IF instruction.st # "ok" THEN instruction ELSE
             IF flag
             THEN parse_if_else_loop(b, instruction.cur, if_exprs,
                                     Append(else_exprs, instruction.val), flag)
             ELSE parse_if_else_loop(b, instruction.cur,
                                     Append(if_exprs, instruction.val),
                                     else_exprs, flag)))

parse_if_else(b, c) == parse_if_else_loop(b, c, <<>>, <<>>, FALSE)

\* a reserved byte that is read and not looked at
zero_byte_then_any(b, c, instr) ==
    (LET z == Parser("read_u8", b, c, <<>>) IN IF z.st # "ok" THEN z ELSE
    POk(z.cur, instr))

\* a reserved byte that must be 0x00, then the instruction
zero_byte_then(b, c, instr) ==
    (LET z == Parser("read_u8", b, c, <<>>) IN IF z.st # "ok" THEN z ELSE
    IF z.val = 0 THEN POk(z.cur, instr) ELSE PErr(z.cur))

\* the 0xFC arm of parse_instruction
parse_instruction_fc(b, c) ==
    (LET sub == Parser("Parser_read_u32", b, c, <<>>) IN IF sub.st # "ok" THEN sub ELSE
    LET k == U32ToNat(sub.val)
        one(name) == (LET x == Parser("Parser_read_u32", b, sub.cur, <<>>) IN IF x.st # "ok" THEN x ELSE
                     POk(x.cur, Instr(name, <<x.val>>)))
    IN  CASE k <= 7 -> POk(sub.cur, Instr(SaturatedNames[k + 1], <<>>))
          [] k = 8 -> (LET x == Parser("Parser_read_u32", b, sub.cur, <<>>) IN IF x.st # "ok" THEN x ELSE
                      Parser("zero_byte_then", b, x.cur, Instr("MemoryInit", <<x.val>>)))
          [] k = 9 -> one("DataDrop")
          [] k = 10 -> (LET z == Parser("zero_byte_then", b, sub.cur, "zero") IN IF z.st # "ok" THEN z ELSE
                       Parser("zero_byte_then", b, z.cur, Instr("MemoryCopy", <<>>)))
          [] k = 11 -> Parser("zero_byte_then", b, sub.cur, Instr("MemoryFill", <<>>))
          [] k = 12 -> (LET y == Parser("Parser_read_u32", b, sub.cur, <<>>) IN IF y.st # "ok" THEN y ELSE
                       (LET x == Parser("Parser_read_u32", b, y.cur, <<>>) IN IF x.st # "ok" THEN x ELSE
                       POk(x.cur, Instr("TableInit", <<x.val, y.val>>))))
          [] k = 13 -> one("ElemDrop")
          [] k = 14 -> (LET x == Parser("Parser_read_u32", b, sub.cur, <<>>) IN IF x.st # "ok" THEN x ELSE
                       (LET y == Parser("Parser_read_u32", b, x.cur, <<>>) IN IF y.st # "ok" THEN y ELSE
                       POk(y.cur, Instr("TableCopy", <<x.val, y.val>>))))
          [] k = 15 -> one("TableGrow")
          [] k = 16 -> one("TableSize")
          [] k = 17 -> one("TableFill")
          [] OTHER -> PErr(sub.cur))

parse_instruction(b, c, opcode) ==
    CASE opcode = 0 -> POk(c, Instr("Unreachable", <<>>))
      [] opcode = 1 -> POk(c, Instr("Nop", <<>>))
      [] opcode = 2 ->
            (LET bt == Parser("parse_block_type", b, c, <<>>) IN IF bt.st # "ok" THEN bt ELSE
            (LET body == Parser("parse_expression", b, bt.cur, <<>>) IN IF body.st # "ok" THEN body ELSE
            POk(body.cur, Instr("Block", <<bt.val, body.val>>))))
      [] opcode = 3 ->
            (LET bt == Parser("parse_block_type", b, c, <<>>) IN IF bt.st # "ok" THEN bt ELSE
            (LET body == Parser("parse_expression", b, bt.cur, <<>>) IN IF body.st # "ok" THEN body ELSE
            POk(body.cur, Instr("Loop", <<bt.val, body.val>>))))
      [] opcode = 4 ->
            (LET ie == Parser("parse_if_else", b, c, <<>>) IN IF ie.st # "ok" THEN ie ELSE
            (LET bt == Parser("parse_block_type", b, ie.cur, <<>>) IN IF bt.st # "ok" THEN bt ELSE
            POk(bt.cur, Instr("IfElse", <<bt.val, ie.val[1], ie.val[2]>>))))
      [] opcode \in DOMAIN IndexNames ->
            (LET x == Parser("Parser_read_u32", b, c, <<>>) IN IF x.st # "ok" THEN x ELSE
            POk(x.cur, Instr(IndexNames[opcode], <<x.val>>)))
      [] opcode = 14 ->
            (LET labels == Parser("parse_vec", b, c, "Parser_read_u32") IN IF labels.st # "ok" THEN labels ELSE
            (LET default == Parser("Parser_read_u32", b, labels.cur, <<>>) IN IF default.st # "ok" THEN default ELSE
            POk(default.cur, Instr("BrTable", <<labels.val, default.val>>))))
      [] opcode = 15 -> POk(c, Instr("Return", <<>>))
      [] opcode = 17 ->
            (LET x == Parser("Parser_read_u32", b, c, <<>>) IN IF x.st # "ok" THEN x ELSE
            (LET y == Parser("Parser_read_u32", b, x.cur, <<>>) IN IF y.st # "ok" THEN y ELSE
            POk(y.cur, Instr("CallIndirect", <<x.val, y.val>>))))
      [] opcode = 208 ->
            (LET rt == Parser("parse_reference_type", b, c, <<>>) IN IF rt.st # "ok" THEN rt ELSE
            POk(rt.cur, Instr("RefNull", <<rt.val>>)))
      [] opcode = 209 -> POk(c, Instr("RefIsNull", <<>>))
      [] opcode = 26 -> POk(c, Instr("Drop", <<>>))
      [] opcode = 27 -> POk(c, Instr("Select", <<<<>>>>))
      [] opcode = 28 ->
            (LET ts == Parser("parse_vec", b, c, "parse_value_type") IN IF ts.st # "ok" THEN ts ELSE
            POk(ts.cur, Instr("Select", <<ts.val>>)))
      [] opcode = 252 -> Parser("parse_instruction_fc", b, c, <<>>)
      [] opcode >= 40 /\ opcode <= 62 ->
            (LET m == Parser("parse_memarg", b, c, <<>>) IN IF m.st # "ok" THEN m ELSE
            POk(m.cur, Instr(MemArgNames[opcode - 39], <<m.val>>)))
      [] opcode = 63 -> Parser("zero_byte_then", b, c, Instr("MemorySize", <<>>))
      [] opcode = 64 -> Parser("zero_byte_then", b, c, Instr("MemoryGrow", <<>>))
      [] opcode = 65 ->
            (LET x == Parser("Parser_read_i32", b, c, <<>>) IN IF x.st # "ok" THEN x ELSE
            POk(x.cur, Instr("I32Const", <<x.val>>)))
      [] opcode = 66 ->
            (LET x == Parser("Parser_read_i64", b, c, <<>>) IN IF x.st # "ok" THEN x ELSE
            POk(x.cur, Instr("I64Const", <<x.val>>)))
      [] opcode = 67 ->
            (LET x == Parser("read_f32", b, c, <<>>) IN IF x.st # "ok" THEN x ELSE
            POk(x.cur, Instr("F32Const", <<x.val>>)))
      [] opcode = 68 ->
            (LET x == Parser("read_f64", b, c, <<>>) IN IF x.st # "ok" THEN x ELSE
            POk(x.cur, Instr("F64Const", <<x.val>>)))
      [] opcode >= 69 /\ opcode <= 196 ->
            POk(c, Instr(NumericNames[opcode - 68], <<>>))
      [] opcode = 253 -> PPanic(c)
      [] OTHER -> PErr(c)

(***************************************************************************)
(* parser.rs, 5.5: Modules.                                                *)
(***************************************************************************)
\* `size as usize - name.len()` underflows when the name is longer than the
\* section: a panic (in a release build the wrapped length makes the slice
\* index of read_slice panic instead)
parse_custom_section(b, c, size) ==
    (LET name == Parser("parse_name", b, c, <<>>) IN IF name.st # "ok" THEN name ELSE
    IF U32ToNat(size) < Len(name.val) THEN PPanic(name.cur)
    ELSE (LET bytes == Parser("read_slice", b, name.cur, U32ToNat(size) - Len(name.val)) IN IF bytes.st # "ok" THEN bytes ELSE
         POk(bytes.cur, [name |-> name.val, bytes |-> bytes.val])))

parse_type_section(b, c) == Parser("parse_vec", b, c, "parse_function_type")

parse_import(b, c) ==
    (LET module == Parser("parse_name", b, c, <<>>) IN IF module.st # "ok" THEN module ELSE
    (LET name == Parser("parse_name", b, module.cur, <<>>) IN IF name.st # "ok" THEN name ELSE
    (LET d == Parser("read_u8", b, name.cur, <<>>) IN IF d.st # "ok" THEN d ELSE
    LET import(kind, r) ==
            (LET x == r IN IF x.st # "ok" THEN x ELSE
            POk(x.cur, [module |-> module.val, name |-> name.val,
                        description |-> <<kind, x.val>>]))
    IN  CASE d.val = 0 -> import("Func", Parser("Parser_read_u32", b, d.cur, <<>>))
          [] d.val = 1 -> import("Table", Parser("parse_table_type", b, d.cur, <<>>))
          [] d.val = 2 -> import("Mem", Parser("parse_memory_type", b, d.cur, <<>>))
          [] d.val = 3 -> import("Global", Parser("parse_global_type", b, d.cur, <<>>))
          [] OTHER -> PErr(d.cur))))

parse_import_section(b, c) == Parser("parse_vec", b, c, "parse_import")

parse_function_section(b, c) == Parser("parse_vec", b, c, "Parser_read_u32")

parse_table_section(b, c) == Parser("parse_vec", b, c, "parse_table_type")

parse_memory_section(b, c) == Parser("parse_vec", b, c, "parse_memory_type")

parse_global(b, c) ==
    (LET gt == Parser("parse_global_type", b, c, <<>>) IN IF gt.st # "ok" THEN gt ELSE
    (LET e == Parser("parse_expression", b, gt.cur, <<>>) IN IF e.st # "ok" THEN e ELSE
    POk(e.cur, [global_type |-> gt.val, initial_expression |-> e.val])))

parse_global_section(b, c) == Parser("parse_vec", b, c, "parse_global")

parse_export(b, c) ==
    (LET name == Parser("parse_name", b, c, <<>>) IN IF name.st # "ok" THEN name ELSE
    (LET d == Parser("read_u8", b, name.cur, <<>>) IN IF d.st # "ok" THEN d ELSE
    LET export(kind) ==
            (LET x == Parser("Parser_read_u32", b, d.cur, <<>>) IN IF x.st # "ok" THEN x ELSE
            POk(x.cur, [name |-> name.val, description |-> <<kind, x.val>>]))
    IN  CASE d.val = 0 -> export("Func")
          [] d.val = 1 -> export("Table")
          [] d.val = 2 -> export("Mem")
          [] d.val = 3 -> export("Global")
          [] OTHER -> PErr(d.cur)))

parse_export_section(b, c) == Parser("parse_vec", b, c, "parse_export")

\* vec(funcidx) as the single expression [ref.func i, ...]
ref_funcs(b, c) ==
    (LET v == Parser("parse_vec", b, c, "Parser_read_u32") IN IF v.st # "ok" THEN v ELSE
    POk(v.cur, << [i \in 1..Len(v.val) |-> Instr("RefFunc", <<v.val[i]>>)] >>))

\* an elemkind byte that must be 0x00
elemkind(b, c) ==
    (LET k == Parser("read_u8", b, c, <<>>) IN IF k.st # "ok" THEN k ELSE
    IF k.val = 0 THEN k ELSE PErr(k.cur))

Segment(ref_type, expression, mode) ==
    [ref_type |-> ref_type, expression |-> expression, mode |-> mode]

Active(index, offset) == <<"Active", index, offset>>

parse_element_segement(b, c) ==
    (LET kind == Parser("Parser_read_u32", b, c, <<>>) IN IF kind.st # "ok" THEN kind ELSE
    LET k == U32ToNat(kind.val)
    IN  CASE k = 0 ->
              (LET offset == Parser("parse_expression", b, kind.cur, <<>>) IN IF offset.st # "ok" THEN offset ELSE
              (LET e == Parser("ref_funcs", b, offset.cur, <<>>) IN IF e.st # "ok" THEN e ELSE
              POk(e.cur, Segment("FuncRef", e.val,
                                 Active(Zero(W32), offset.val)))))
          [] k = 1 ->
              (LET ek == Parser("elemkind", b, kind.cur, <<>>) IN IF ek.st # "ok" THEN ek ELSE
              (LET e == Parser("ref_funcs", b, ek.cur, <<>>) IN IF e.st # "ok" THEN e ELSE
              POk(e.cur, Segment("FuncRef", e.val, <<"Passive">>))))
          [] k = 2 ->
              (LET table_index == Parser("Parser_read_u32", b, kind.cur, <<>>) IN IF table_index.st # "ok" THEN table_index ELSE
              (LET offset == Parser("parse_expression", b, table_index.cur, <<>>) IN IF offset.st # "ok" THEN offset ELSE
              (LET ek == Parser("elemkind", b, offset.cur, <<>>) IN IF ek.st # "ok" THEN ek ELSE
              (LET e == Parser("ref_funcs", b, ek.cur, <<>>) IN IF e.st # "ok" THEN e ELSE
              POk(e.cur, Segment("FuncRef", e.val,
                                 Active(table_index.val, offset.val)))))))
          [] k = 3 ->
              (LET ek == Parser("elemkind", b, kind.cur, <<>>) IN IF ek.st # "ok" THEN ek ELSE
              (LET e == Parser("ref_funcs", b, ek.cur, <<>>) IN IF e.st # "ok" THEN e ELSE
              POk(e.cur, Segment("FuncRef", e.val, <<"Declarative">>))))
          [] k = 4 ->
              (LET offset == Parser("parse_expression", b, kind.cur, <<>>) IN IF offset.st # "ok" THEN offset ELSE
              (LET e == Parser("parse_vec", b, offset.cur, "parse_expression") IN IF e.st # "ok" THEN e ELSE
              POk(e.cur, Segment("FuncRef", e.val,
                                 Active(Zero(W32), offset.val)))))
          [] k = 5 ->
              (LET rt == Parser("parse_reference_type", b, kind.cur, <<>>) IN IF rt.st # "ok" THEN rt ELSE
              (LET e == Parser("parse_vec", b, rt.cur, "parse_expression") IN IF e.st # "ok" THEN e ELSE
              POk(e.cur, Segment(rt.val, e.val, <<"Passive">>))))
          [] k = 6 ->
              (LET table_index == Parser("Parser_read_u32", b, kind.cur, <<>>) IN IF table_index.st # "ok" THEN table_index ELSE
              (LET offset == Parser("parse_expression", b, table_index.cur, <<>>) IN IF offset.st # "ok" THEN offset ELSE
              (LET rt == Parser("parse_reference_type", b, offset.cur, <<>>) IN IF rt.st # "ok" THEN rt ELSE
              (LET e == Parser("parse_vec", b, rt.cur, "parse_expression") IN IF e.st # "ok" THEN e ELSE
              POk(e.cur, Segment(rt.val, e.val,
                                 Active(table_index.val, offset.val)))))))
          [] k = 7 ->
              (LET rt == Parser("parse_reference_type", b, kind.cur, <<>>) IN IF rt.st # "ok" THEN rt ELSE
              (LET e == Parser("parse_vec", b, rt.cur, "parse_expression") IN IF e.st # "ok" THEN e ELSE
              POk(e.cur, Segment(rt.val, e.val, <<"Declarative">>))))
          [] OTHER -> PErr(kind.cur))

parse_element_section(b, c) == Parser("parse_vec", b, c, "parse_element_segement")

parse_local(b, c) ==
    (LET count == Parser("Parser_read_u32", b, c, <<>>) IN IF count.st # "ok" THEN count ELSE
    (LET vt == Parser("parse_value_type", b, count.cur, <<>>) IN IF vt.st # "ok" THEN vt ELSE
    POk(vt.cur, [count |-> count.val, value_type |-> vt.val])))

\* the size of the body is read and dropped
parse_code(b, c) ==
    (LET size == Parser("Parser_read_u32", b, c, <<>>) IN IF size.st # "ok" THEN size ELSE
    (LET locals == Parser("parse_vec", b, size.cur, "parse_local") IN IF locals.st # "ok" THEN locals ELSE
    (LET e == Parser("parse_expression", b, locals.cur, <<>>) IN IF e.st # "ok" THEN e ELSE
    POk(e.cur, [locals |-> locals.val, expression |-> e.val]))))

parse_code_section(b, c) == Parser("parse_vec", b, c, "parse_code")

parse_data_segment(b, c) ==
    (LET kind == Parser("Parser_read_u32", b, c, <<>>) IN IF kind.st # "ok" THEN kind ELSE
    LET k == U32ToNat(kind.val)
    IN  CASE k = 0 ->
              (LET offset == Parser("parse_expression", b, kind.cur, <<>>) IN IF offset.st # "ok" THEN offset ELSE
              (LET bytes == Parser("parse_vec", b, offset.cur, "read_u8") IN IF bytes.st # "ok" THEN bytes ELSE
              POk(bytes.cur, [bytes |-> bytes.val,
                              mode |-> Active(Zero(W32), offset.val)])))
          [] k = 1 ->
              (LET bytes == Parser("parse_vec", b, kind.cur, "read_u8") IN IF bytes.st # "ok" THEN bytes ELSE
              POk(bytes.cur, [bytes |-> bytes.val, mode |-> <<"Passive">>]))
          [] k = 2 ->
              (LET memory == Parser("Parser_read_u32", b, kind.cur, <<>>) IN IF memory.st # "ok" THEN memory ELSE
              (LET offset == Parser("parse_expression", b, memory.cur, <<>>) IN IF offset.st # "ok" THEN offset ELSE
              (LET bytes == Parser("parse_vec", b, offset.cur, "read_u8") IN IF bytes.st # "ok" THEN bytes ELSE
              POk(bytes.cur, [bytes |-> bytes.val,
                              mode |-> Active(memory.val, offset.val)]))))
          [] OTHER -> PErr(kind.cur))

parse_data_section(b, c) == Parser("parse_vec", b, c, "parse_data_segment")

\* binary_grammar.rs: the largest string, in bytes
MAX_STRING_SIZE == 100000

\* binary_grammar.rs: section_id
CUSTOM_ID == 0
TYPE_ID == 1
IMPORT_ID == 2
FUNCTION_ID == 3
TABLE_ID == 4
MEMORY_ID == 5
GLOBAL_ID == 6
EXPORT_ID == 7
START_ID == 8
ELEMENT_ID == 9
CODE_ID == 10
DATA_ID == 11
DATA_COUNT_ID == 12

\* parse_section(id), entered with the cursor after the id byte.  The value
\* of an Ok is the Section together with the declared size and the cursor
\* after the size field.
parse_section(b, c, id) ==
    (LET size == Parser("Parser_read_u32", b, c, <<>>) IN IF size.st # "ok" THEN size ELSE
    LET section(name, r) ==
            (LET x == r IN IF x.st # "ok" THEN x ELSE
            POk(x.cur, [id |-> id, section |-> name, size |-> size.val,
                        start |-> size.cur, end |-> x.cur, content |-> x.val]))
    IN  CASE id = CUSTOM_ID ->
              section("Custom", Parser("parse_custom_section", b, size.cur, size.val))
          [] id = TYPE_ID -> section("Type", Parser("parse_type_section", b, size.cur, <<>>))
          [] id = IMPORT_ID -> section("Import", Parser("parse_import_section", b, size.cur, <<>>))
          [] id = FUNCTION_ID ->
              section("Function", Parser("parse_function_section", b, size.cur, <<>>))
          [] id = TABLE_ID -> section("Table", Parser("parse_table_section", b, size.cur, <<>>))
          [] id = MEMORY_ID -> section("Memory", Parser("parse_memory_section", b, size.cur, <<>>))
          [] id = GLOBAL_ID -> section("Global", Parser("parse_global_section", b, size.cur, <<>>))
          [] id = EXPORT_ID -> section("Export", Parser("parse_export_section", b, size.cur, <<>>))
          [] id = START_ID -> PPanic(size.cur)
          [] id = ELEMENT_ID ->
              section("Element", Parser("parse_element_section", b, size.cur, <<>>))
          [] id = CODE_ID -> section("Code", Parser("parse_code_section", b, size.cur, <<>>))
          [] id = DATA_ID -> section("Data", Parser("parse_data_section", b, size.cur, <<>>))
          [] id = DATA_COUNT_ID ->
              section("DataCount", Parser("Parser_read_u32", b, size.cur, <<>>))
          [] OTHER -> PErr(size.cur))

\* binary_grammar.rs: *b"\0asm"
MAGIC_NUMBER == <<0, 97, 115, 109>>

\* parse_preamble with the version check left out
parse_preamble_no_version(b, c) ==
    (LET magic == Parser("read_slice", b, c, 4) IN IF magic.st # "ok" THEN magic ELSE
    IF magic.val # MAGIC_NUMBER THEN PErr(magic.cur)
    ELSE (LET version == Parser("read_slice", b, magic.cur, 4) IN IF version.st # "ok" THEN version ELSE
         POk(version.cur, 1)))

parse_preamble(b, c) ==
    (LET magic == Parser("read_slice", b, c, 4) IN IF magic.st # "ok" THEN magic ELSE
    IF magic.val # MAGIC_NUMBER THEN PErr(magic.cur)
    ELSE (LET version == Parser("read_slice", b, magic.cur, 4) IN IF version.st # "ok" THEN version ELSE
         IF version.val # <<1, 0, 0, 0>> THEN PErr(version.cur)
         ELSE POk(version.cur, 1)))

\* a call of a method of the Parser: self.method(arg)
Parser(method, b, c, arg) ==
    CASE method = "read_u8" -> read_u8(b, c)
      [] method = "Parser_read_u32" -> Parser_read_u32(b, c)
      [] method = "Parser_read_i32" -> Parser_read_i32(b, c)
      [] method = "Parser_read_i64" -> Parser_read_i64(b, c)
      [] method = "read_f32" -> read_f32(b, c)
      [] method = "read_f64" -> read_f64(b, c)
      [] method = "parse_name" -> parse_name(b, c)
      [] method = "parse_reference_type" -> parse_reference_type(b, c)
      [] method = "parse_value_type" -> parse_value_type(b, c)
      [] method = "parse_result_type" -> parse_result_type(b, c)
      [] method = "parse_function_type" -> parse_function_type(b, c)
      [] method = "parse_limit" -> parse_limit(b, c)
      [] method = "parse_memory_type" -> parse_memory_type(b, c)
      [] method = "parse_table_type" -> parse_table_type(b, c)
      [] method = "parse_global_type" -> parse_global_type(b, c)
      [] method = "parse_block_type" -> parse_block_type(b, c)
      [] method = "parse_memarg" -> parse_memarg(b, c)
      [] method = "parse_expression" -> parse_expression(b, c)
      [] method = "parse_if_else" -> parse_if_else(b, c)
      [] method = "parse_instruction_fc" -> parse_instruction_fc(b, c)
      [] method = "parse_type_section" -> parse_type_section(b, c)
      [] method = "parse_import" -> parse_import(b, c)
      [] method = "parse_import_section" -> parse_import_section(b, c)
      [] method = "parse_function_section" -> parse_function_section(b, c)
      [] method = "parse_table_section" -> parse_table_section(b, c)
      [] method = "parse_memory_section" -> parse_memory_section(b, c)
      [] method = "parse_global" -> parse_global(b, c)
      [] method = "parse_global_section" -> parse_global_section(b, c)
      [] method = "parse_export" -> parse_export(b, c)
      [] method = "parse_export_section" -> parse_export_section(b, c)
      [] method = "ref_funcs" -> ref_funcs(b, c)
      [] method = "elemkind" -> elemkind(b, c)
      [] method = "parse_element_segement" -> parse_element_segement(b, c)
      [] method = "parse_element_section" -> parse_element_section(b, c)
      [] method = "parse_local" -> parse_local(b, c)
      [] method = "parse_code" -> parse_code(b, c)
      [] method = "parse_code_section" -> parse_code_section(b, c)
      [] method = "parse_data_segment" -> parse_data_segment(b, c)
      [] method = "parse_data_section" -> parse_data_section(b, c)
      [] method = "parse_preamble" -> parse_preamble(b, c)
      [] method = "read_slice" -> read_slice(b, c, arg)
      [] method = "zero_byte_then" -> zero_byte_then(b, c, arg)
      [] method = "parse_instruction" -> parse_instruction(b, c, arg)
      [] method = "parse_custom_section" -> parse_custom_section(b, c, arg)
      [] method = "parse_section" -> parse_section(b, c, arg)
      [] method = "parse_vec" -> parse_vec(arg, b, c)

(***************************************************************************)
(* store.rs and execution_grammar.rs: the store.                           *)
(*                                                                         *)
(* An address is a usize: address a denotes entry a + 1 of its array.  The *)
(* u32 values of the IR (indices, limits) are naturals here: they are only *)
(* used after `as usize`.  An operation of the store returns               *)
(* [st, store, val]: the store it leaves and the value of an Ok.           *)
(***************************************************************************)
\* Store::new
Store_new ==
    [functions |-> <<>>, tables |-> <<>>, memories |-> <<>>, globals |-> <<>>,
     element_segments |-> <<>>, data_segments |-> <<>>]

\* ModuleInstance::new
ModuleInstance_new(types) ==
    [types |-> types, function_addrs |-> <<>>, table_addrs |-> <<>>,
     mem_addrs |-> <<>>, global_addrs |-> <<>>, elem_addrs |-> <<>>,
     data_addrs |-> <<>>, exports |-> <<>>]

SOk(s, v) == [st |-> "ok", store |-> s, val |-> v]
SErr(s) == [st |-> "err", store |-> s, val |-> "none"]

allocate_function(s, f, module_instance) ==
    LET f_address == Len(s.functions)
    IN  IF ~(f.type_index < Len(module_instance.types)) THEN SErr(s)
        ELSE SOk([s EXCEPT !.functions =
                     Append(@, [variant |-> "Local",
                                function_type |-> module_instance.types[f.type_index + 1],
                                module |-> module_instance,
                                code |-> f])],
                 f_address)

allocate_host_function(s, h_f, f_idx, module_instance) ==
    LET func_address == Len(s.functions)
    IN  IF ~(f_idx < Len(module_instance.types)) THEN SErr(s)
        ELSE SOk([s EXCEPT !.functions =
                     Append(@, [variant |-> "Host",
                                function_type |-> module_instance.types[f_idx + 1],
                                code |-> h_f])],
                 func_address)

allocate_table(s, table_type, initial_ref) ==
    LET n == table_type.limit.min
        table_address == Len(s.tables)
    IN  SOk([s EXCEPT !.tables =
                Append(@, [table_type |-> table_type,
                           elem |-> [i \in 1..n |-> initial_ref]])],
            table_address)

\* the address is the length after the push
allocate_memory_after(s, memory_type) ==
    LET n == memory_type[1].min
        s1 == [s EXCEPT !.memories =
                  Append(@, [memory_type |-> memory_type,
                             data |-> [i \in 1..n |-> 0]])]
    IN  SOk(s1, Len(s1.memories))

\* MemoryType(limit) is the tuple <<limit>>
allocate_memory(s, memory_type) ==
    LET memory_address == Len(s.memories)
        n == memory_type[1].min
    IN  SOk([s EXCEPT !.memories =
                Append(@, [memory_type |-> memory_type,
                           data |-> [i \in 1..n |-> 0]])],
            memory_address)

allocate_global(s, global, initializer_value) ==
    LET global_address == Len(s.globals)
    IN  SOk([s EXCEPT !.globals =
                Append(@, [global_type |-> global.global_type,
                           value |-> initializer_value])],
            global_address)

allocate_element_segment(s, element_segment, element_segment_ref) ==
    LET element_segment_address == Len(s.element_segments)
    IN  SOk([s EXCEPT !.element_segments =
                Append(@, [ref_type |-> element_segment.ref_type,
                           elem |-> element_segment_ref])],
            element_segment_address)

allocate_data_instance(s, data_segment) ==
    LET data_address == Len(s.data_segments)
    IN  SOk([s EXCEPT !.data_segments = Append(@, [data |-> data_segment.bytes])],
            data_address)

\* the closure handed to map() for the items of a kind
allocate(kind, s, x, module_instance) ==
    CASE kind = "function" -> allocate_function(s, x, module_instance)
      [] kind = "table" -> allocate_table(s, x, "Null")
      [] kind = "memory" -> allocate_memory(s, x)
      [] kind = "global" -> allocate_global(s, x[1], x[2])
      [] kind = "element" -> allocate_element_segment(s, x[1], x[2])
      [] kind = "data" -> allocate_data_instance(s, x)

\* into_iter().map(allocate).collect::<Result<Vec<_>>>(): the items are
\* allocated in order up to the first Err
RECURSIVE collect(_, _, _, _, _)
collect(kind, s, items, module_instance, addrs) ==
    IF items = <<>> THEN SOk(s, addrs)
    ELSE LET r == allocate(kind, s, Head(items), module_instance)
         IN  IF r.st # "ok" THEN r
             ELSE collect(kind, r.store, Tail(items), module_instance,
                          Append(addrs, r.val))

\* a.into_iter().zip(b)
zip(a, b) == [i \in 1..Min(Len(a), Len(b)) |-> <<a[i], b[i]>>]

\* imports.iter().position(..): the 1-based index of the first supplied
\* import with the module and the name of the declared import, 0 for None
position_by_module(imports, import) ==
    LET hits == {i \in 1..Len(imports) : imports[i].module = import.module}
    IN  IF hits = {} THEN 0 ELSE CHOOSE i \in hits : \A j \in hits : i <= j

position(imports, import) ==
    LET hits == {i \in 1..Len(imports) :
                    /\ imports[i].module = import.module
                    /\ imports[i].name = import.name}
    IN  IF hits = {} THEN 0 ELSE CHOOSE i \in hits : \A j \in hits : i <= j

\* Vec::remove(index), index 1-based
remove(v, index) == SubSeq(v, 1, index - 1) \o SubSeq(v, index + 1, Len(v))

\* module_instance.<field> = <the addresses collected>, or the Err returned
\* through `?`
assign(a, field, r) ==
    IF r.st # "ok" THEN [a EXCEPT !.st = r.st, !.store = r.store]
    ELSE [a EXCEPT !.store = r.store,
                   !.module_instance = [@ EXCEPT ![field] = r.val]]

\* module_instance.<field>.push(addr) after the entry was pushed to the
\* array of the store
push_import(a, imports, array, entry, field) ==
    [a EXCEPT !.imports = imports,
              !.store = [@ EXCEPT ![array] = Append(@, entry)],
              !.module_instance =
                  [@ EXCEPT ![field] = Append(@, Len(a.store[array]))]]

\* the loop over module.imports.  a holds what allocate_module has built:
\* the outcome so far, the store, the module instance and the supplied
\* imports that are left.
RECURSIVE import_loop(_, _)
import_loop(a, declared) ==
    IF declared = <<>> THEN a
    ELSE LET import == Head(declared)
             index == position(a.imports, import)
         IN  IF index = 0 THEN [a EXCEPT !.st = "err"]
             ELSE LET value == a.imports[index].value
                      imports == remove(a.imports, index)
                      description == import.description
                      a1 ==
                        CASE value[1] = "Func" /\ description[1] = "Func" ->
                               LET r == allocate_host_function(
                                            a.store, value[2], description[2],
                                            a.module_instance)
                               IN  IF r.st # "ok"
                                   THEN [a EXCEPT !.st = "err", !.imports = imports]
                                   ELSE [a EXCEPT
                                           !.imports = imports,
                                           !.store = r.store,
                                           !.module_instance.function_addrs =
                                               Append(@, r.val)]
                          [] value[1] = "Global" /\ description[1] = "Global" ->
                               push_import(a, imports, "globals",
                                           [global_type |-> description[2],
                                            value |-> value[2]],
                                           "global_addrs")
                          [] value[1] = "Table" /\ description[1] = "Table" ->
                               push_import(a, imports, "tables",
                                           [table_type |-> description[2],
                                            elem |-> value[2]],
                                           "table_addrs")
                          [] value[1] = "Memory" /\ description[1] = "Mem" ->
                               push_import(a, imports, "memories",
                                           [memory_type |-> description[2],
                                            data |-> value[2]],
                                           "mem_addrs")
                          [] OTHER -> [a EXCEPT !.st = "err", !.imports = imports]
                  IN  IF a1.st # "ok" THEN a1
                      ELSE import_loop(a1, Tail(declared))

\* the address vector an export description indexes, and the variant of
\* ExternalValue it yields
export_field(kind) ==
    CASE kind = "Func" -> <<"function_addrs", "Function">>
      [] kind = "Table" -> <<"table_addrs", "Table">>
      [] kind = "Mem" -> <<"mem_addrs", "Memory">>
      [] kind = "Global" -> <<"global_addrs", "Global">>

\* the loop over module.exports: the index is taken after the
\* pre_import_*_addr_len entries of its vector, and indexing past the end of
\* the vector panics
RECURSIVE export_loop(_, _, _)
export_loop(a, exports, pre_import_addr_len) ==
    IF exports = <<>> THEN a
    ELSE LET export == Head(exports)
             f == export_field(export.description[1])
             addrs == a.module_instance[f[1]]
             i == pre_import_addr_len[f[1]] + export.description[2]
         IN  IF ~(i < Len(addrs)) THEN [a EXCEPT !.st = "panic"]
             ELSE export_loop(
                      [a EXCEPT !.module_instance.exports =
                          Append(@, [name |-> export.name,
                                     value |-> <<f[2], addrs[i + 1]>>])],
                      Tail(exports), pre_import_addr_len)

\* the statements of allocate_module in program order; a holds what the call
\* has built so far
allocate_module_step(step, a, module, initial_global_values, element_segment_refs) ==
    CASE step = 1 ->
           assign(a, "function_addrs",
                  collect("function", a.store, module.functions,
                          a.module_instance, <<>>))
      [] step = 2 ->
           assign(a, "table_addrs",
                  collect("table", a.store, module.tables, a.module_instance, <<>>))
      [] step = 3 ->
           assign(a, "mem_addrs",
                  collect("memory", a.store, module.mems, a.module_instance, <<>>))
      [] step = 4 ->
           IF Len(module.globals) # Len(initial_global_values)
           THEN [a EXCEPT !.st = "err"]
           ELSE assign(a, "global_addrs",
                       collect("global", a.store,
                               zip(module.globals, initial_global_values),
                               a.module_instance, <<>>))
      [] step = 5 ->
           IF Len(module.element_segments) # Len(element_segment_refs)
           THEN [a EXCEPT !.st = "err"]
           ELSE assign(a, "elem_addrs",
                       collect("element", a.store,
                               zip(module.element_segments, element_segment_refs),
                               a.module_instance, <<>>))
      [] step = 6 ->
           assign(a, "data_addrs",
                  collect("data", a.store, module.data_segments,
                          a.module_instance, <<>>))
      [] step = 7 ->
           LET pre_import_addr_len ==
                   [k \in {"function_addrs", "table_addrs", "mem_addrs",
                           "global_addrs"} |-> Len(a.module_instance[k])]
               a1 == import_loop(a, module.imports)
           IN  IF a1.st # "ok" THEN a1
               ELSE export_loop(a1, module.exports, pre_import_addr_len)

RECURSIVE allocate_module_from(_, _, _, _, _)
allocate_module_from(step, a, module, initial_global_values, element_segment_refs) ==
    IF a.st # "ok" \/ step > 7 THEN a
    ELSE allocate_module_from(
             step + 1,
             allocate_module_step(step, a, module, initial_global_values,
                                  element_segment_refs),
             module, initial_global_values, element_segment_refs)

\* Store::allocate_module: [st, store, module_instance], the module instance
\* being the value of an Ok
allocate_module(s, module, imports, initial_global_values, element_segment_refs) ==
    allocate_module_from(
        1,
        [st |-> "ok", store |-> s, imports |-> imports,
         module_instance |-> ModuleInstance_new(module.types)],
        module, initial_global_values, element_segment_refs)

(***************************************************************************)
(* execution_grammar.rs and interpreter.rs: values, the stack and the      *)
(* interpreter.                                                            *)
(*                                                                         *)
(* A Value is [tag, v]: an i32 / i64 is a bit vector as above; an f32 /    *)
(* f64 is <<class, n>>: the number n (class 0; a small integer, which both *)
(* formats hold exactly), a NaN (class 1), or a float the model does not   *)
(* follow (class 2: the root of a number that is not a square); a Ref is   *)
(* <<variant>> or <<variant, address>>.  An Entry of the stack is          *)
(* a Value, a Label or an Activation.  An operation of the interpreter     *)
(* returns [st, stack]: "ok", "err" or "panic" and the stack it leaves.    *)
(***************************************************************************)
I32(v) == [tag |-> "I32", v |-> v]
I64(v) == [tag |-> "I64", v |-> v]
F32(v) == [tag |-> "F32", v |-> v]
F64(v) == [tag |-> "F64", v |-> v]
V128(v) == [tag |-> "V128", v |-> v]
Ref(v) == [tag |-> "Ref", v |-> v]

Num(n) == <<0, n>>
NaN == <<1, 0>>
Other == <<2, 0>>

\* Ref
Null == <<0>>
FunctionAddr(a) == <<1, a>>
RefExtern(a) == <<2, a>>

\* Value::default
Value_default(value_type) ==
    CASE value_type = "I32" -> I32(Zero(W32))
      [] value_type = "I64" -> I64(Zero(W64))
      [] value_type = "F32" -> F32(Num(0))
      [] value_type = "F64" -> F64(Num(0))
      [] value_type = "V128" -> V128(<<0>>)
      [] OTHER -> Ref(Null)

\* the bytes of a bit vector, least significant first, and back
bytes_of(a) ==
    [j \in 1..(Len(a) \div 8) |->
        a[8 * j - 7] + 2 * a[8 * j - 6] + 4 * a[8 * j - 5] + 8 * a[8 * j - 4]
            + 16 * a[8 * j - 3] + 32 * a[8 * j - 2] + 64 * a[8 * j - 1] + 128 * a[8 * j]]

bits_of(x) == [k \in 1..(8 * Len(x)) |-> (x[((k - 1) \div 8) + 1] \div (2 ^ ((k - 1) % 8))) % 2]

\* x + y from byte j on, c being the carry into byte j; the carry out of the
\* last byte is dropped
RECURSIVE add_bytes(_, _, _, _)
add_bytes(x, y, j, c) ==
    IF j > Len(x) THEN <<>>
    ELSE <<(x[j] + y[j] + c) % 256>> \o add_bytes(x, y, j + 1, (x[j] + y[j] + c) \div 256)

wrapping_add(a, b) == bits_of(add_bytes(bytes_of(a), bytes_of(b), 1, 0))

wrapping_sub(a, b) == wrapping_add(a, Neg(b))

\* the sum of x[i] * y[j + 1 - i] over i in 1..n: column j of the product
RECURSIVE column(_, _, _, _)
column(x, y, j, n) ==
    IF n = 0 THEN 0 ELSE x[n] * y[j + 1 - n] + column(x, y, j, n - 1)

\* x * y from byte j on, c being the carry into byte j
RECURSIVE mul_bytes(_, _, _, _)
mul_bytes(x, y, j, c) ==
    IF j > Len(x) THEN <<>>
    ELSE <<(column(x, y, j, j) + c) % 256>>
            \o mul_bytes(x, y, j + 1, (column(x, y, j, j) + c) \div 256)

wrapping_mul(a, b) == bits_of(mul_bytes(bytes_of(a), bytes_of(b), 1, 0))

leading_zeros(a) == IF a = Zero(Len(a)) THEN Len(a) ELSE Len(a) - 1 - ilog2(a)

trailing_zeros(a) ==
    IF a = Zero(Len(a)) THEN Len(a)
    ELSE (CHOOSE k \in 1..Len(a) : a[k] = 1 /\ \A j \in 1..(k - 1) : a[j] = 0) - 1

\* `x as i32` of a bool or of a count of bits
as_i32(n) == IntBits(n, W32)

bool_as_i32(p) == as_i32(IF p THEN 1 ELSE 0)

\* f32 / f64 operations
float_eq(a, b) == a[1] = 0 /\ b[1] = 0 /\ a[2] = b[2]

float_abs(a) == IF a[1] = 0 /\ a[2] < 0 THEN Num(0 - a[2]) ELSE a

float_neg(a) == IF a[1] = 0 THEN Num(0 - a[2]) ELSE a

float_sqrt(a) ==
    IF a[1] # 0 THEN a
    ELSE IF a[2] < 0 THEN NaN
    ELSE IF \E r \in 0..a[2] : r * r = a[2] THEN Num(CHOOSE r \in 0..a[2] : r * r = a[2])
    ELSE Other

float_arith(op, a, b) ==
    IF a[1] = 1 \/ b[1] = 1 THEN NaN
    ELSE IF a[1] = 2 \/ b[1] = 2 THEN Other
    ELSE CASE op = "+" -> Num(a[2] + b[2])
           [] op = "-" -> Num(a[2] - b[2])
           [] op = "*" -> Num(a[2] * b[2])

\* f32::min / f32::max: a NaN operand is ignored
float_min(a, b) ==
    IF a[1] = 1 THEN b
    ELSE IF b[1] = 1 THEN a
    ELSE IF a[1] = 2 \/ b[1] = 2 THEN Other
    ELSE IF a[2] <= b[2] THEN a ELSE b

float_max(a, b) ==
    IF a[1] = 1 THEN b
    ELSE IF b[1] = 1 THEN a
    ELSE IF a[1] = 2 \/ b[1] = 2 THEN Other
    ELSE IF a[2] >= b[2] THEN a ELSE b

\* Entry
Entry_Value(v) == [entry |-> "Value", value |-> v]
Entry_Label(l) == [entry |-> "Label", label |-> l]
Entry_Activation(f) == [entry |-> "Activation", frame |-> f]

\* Frame::default(): #[derive(Default)] with ModuleInstance::default()
Frame_default == [arity |-> 0, locals |-> <<>>, module |-> ModuleInstance_new(<<>>)]

XOk(st) == [st |-> "ok", stack |-> st]
XErr(st) == [st |-> "err", stack |-> st]
XPanic(st) == [st |-> "panic", stack |-> st]

\* Stack::push
push(st, entry) == Append(st, entry)

\* Stack::pop_n: Err when the stack is shorter, else the stack left and the
\* n entries split off, in the order they were pushed
pop_n(st, n) ==
    IF ~(Len(st) >= n) THEN [st |-> "err", stack |-> st, val |-> <<>>]
    ELSE [st |-> "ok", stack |-> SubSeq(st, 1, Len(st) - n),
          val |-> SubSeq(st, Len(st) - n + 1, Len(st))]

\* Stack::pop_as_value::<T>(): the top entry is popped; Ok(x) when it is a
\* Value of the tag of T, Err when there is none or it is something else
pop_as_value(st, tag) ==
    IF st = <<>> THEN [st |-> "err", stack |-> st, val |-> "none"]
    ELSE LET top == st[Len(st)]
             rest == SubSeq(st, 1, Len(st) - 1)
         IN  IF top.entry = "Value" /\ top.value.tag = tag
             THEN [st |-> "ok", stack |-> rest, val |-> top.value.v]
             ELSE [st |-> "err", stack |-> rest, val |-> "none"]

\* Stack::push_value(x): x.into() is pushed as a Value
push_value(st, value) == XOk(push(st, Entry_Value(value)))

\* the arms of invoke_expression that pop values, by the type they pop
I32Arms ==
    {"I32Eq", "I32Ne", "I32CountLeadingZeros", "I32CountTrailingZeros",
     "I32Add", "I32Sub", "I32Mul"}
I64Arms ==
    {"I64EqZero", "I64Eq", "I64Ne", "I64CountLeadingZeros",
     "I64CountTrailingZeros", "I64Add", "I64Sub", "I64Mul", "I64And", "I64Or"}
F32Arms ==
    {"F32Eq", "F32Ne", "F32Abs", "F32Neg", "F32Sqrt", "F32Add", "F32Sub",
     "F32Mul", "F32Min", "F32Max"}
F64Arms ==
    {"F64Abs", "F64Neg", "F64Sqrt", "F64Add", "F64Sub", "F64Mul", "F64Min",
     "F64Max"}

\* the arms that pop one value and push one
UnaryArms ==
    {"I64EqZero", "I32CountLeadingZeros", "I32CountTrailingZeros",
     "I64CountLeadingZeros", "I64CountTrailingZeros", "F32Abs", "F32Neg",
     "F32Sqrt", "F64Abs", "F64Neg", "F64Sqrt"}

\* the arms that pop two values and push one
BinaryArms ==
    {"I32Eq", "I32Ne", "I64Eq", "I64Ne", "F32Eq", "F32Ne", "I32Add", "I32Sub",
     "I32Mul", "I64Add", "I64Sub", "I64Mul", "I64And", "F32Add", "F32Sub",
     "F32Mul", "F32Min", "F32Max", "F64Add", "F64Sub", "F64Mul", "F64Min",
     "F64Max"}

\* the type T of `let a: T = self.stack.pop_as_value()?` in the arm of op
operand_type(op) ==
    CASE op \in I32Arms -> "I32"
      [] op \in I64Arms -> "I64"
      [] op \in F32Arms -> "F32"
      [] op \in F64Arms -> "F64"

\* the value a unary arm pushes for the popped a
unary(op, a) ==
    CASE op = "I64EqZero" -> I32(bool_as_i32(a = Zero(W64)))
      [] op = "I32CountLeadingZeros" -> I32(as_i32(leading_zeros(a)))
      [] op = "I32CountTrailingZeros" -> I32(as_i32(trailing_zeros(a)))
      [] op = "I64CountLeadingZeros" -> I32(as_i32(leading_zeros(a)))
      [] op = "I64CountTrailingZeros" -> I32(as_i32(trailing_zeros(a)))
      [] op = "F32Abs" -> F32(float_abs(a))
      [] op = "F32Neg" -> F32(float_neg(a))
      [] op = "F32Sqrt" -> F32(float_sqrt(a))
      [] op = "F64Abs" -> F64(float_abs(a))
      [] op = "F64Neg" -> F64(float_neg(a))
      [] op = "F64Sqrt" -> F64(float_sqrt(a))

\* binary with the sub arms computing a.wrapping_sub(b): the value popped
\* first minus the value popped second
binary_sub_swapped(op, a, b) ==
    CASE op = "I32Eq" -> I32(bool_as_i32(a = b))
      [] op = "I32Ne" -> I32(bool_as_i32(a # b))
      [] op = "I64Eq" -> I32(bool_as_i32(a = b))
      [] op = "I64Ne" -> I32(bool_as_i32(a # b))
      [] op = "F32Eq" -> I32(bool_as_i32(float_eq(a, b)))
      [] op = "F32Ne" -> I32(bool_as_i32(~float_eq(a, b)))
      [] op = "I32Add" -> I32(wrapping_add(a, b))
      [] op = "I32Sub" -> I32(wrapping_sub(a, b))
      [] op = "I32Mul" -> I32(wrapping_mul(a, b))
      [] op = "I64Add" -> I64(wrapping_add(a, b))
      [] op = "I64Sub" -> I64(wrapping_sub(a, b))
      [] op = "I64Mul" -> I64(wrapping_mul(a, b))
      [] op = "I64And" -> I64(BitAnd(a, b))
      [] op = "F32Add" -> F32(float_arith("+", a, b))
      [] op = "F32Sub" -> F32(float_arith("-", b, a))
      [] op = "F32Mul" -> F32(float_arith("*", a, b))
      [] op = "F32Min" -> F32(float_min(a, b))
      [] op = "F32Max" -> F32(float_max(a, b))
      [] op = "F64Add" -> F64(float_arith("+", a, b))
      [] op = "F64Sub" -> F64(float_arith("-", b, a))
      [] op = "F64Mul" -> F64(float_arith("*", a, b))
      [] op = "F64Min" -> F64(float_min(a, b))
      [] op = "F64Max" -> F64(float_max(a, b))

\* the value a binary arm pushes: a is the value popped first, b the value
\* popped second
binary(op, a, b) ==
    CASE op = "I32Eq" -> I32(bool_as_i32(a = b))
      [] op = "I32Ne" -> I32(bool_as_i32(a # b))
      [] op = "I64Eq" -> I32(bool_as_i32(a = b))
      [] op = "I64Ne" -> I32(bool_as_i32(a # b))
      [] op = "F32Eq" -> I32(bool_as_i32(float_eq(a, b)))
      [] op = "F32Ne" -> I32(bool_as_i32(~float_eq(a, b)))
      [] op = "I32Add" -> I32(wrapping_add(a, b))
      [] op = "I32Sub" -> I32(wrapping_sub(b, a))
      [] op = "I32Mul" -> I32(wrapping_mul(a, b))
      [] op = "I64Add" -> I64(wrapping_add(a, b))
      [] op = "I64Sub" -> I64(wrapping_sub(b, a))
      [] op = "I64Mul" -> I64(wrapping_mul(a, b))
      [] op = "I64And" -> I64(BitAnd(a, b))
      [] op = "F32Add" -> F32(float_arith("+", a, b))
      [] op = "F32Sub" -> F32(float_arith("-", b, a))
      [] op = "F32Mul" -> F32(float_arith("*", a, b))
      [] op = "F32Min" -> F32(float_min(a, b))
      [] op = "F32Max" -> F32(float_max(a, b))
      [] op = "F64Add" -> F64(float_arith("+", a, b))
      [] op = "F64Sub" -> F64(float_arith("-", b, a))
      [] op = "F64Mul" -> F64(float_arith("*", a, b))
      [] op = "F64Min" -> F64(float_min(a, b))
      [] op = "F64Max" -> F64(float_max(a, b))

\* one arm of the match of invoke_expression: every arm not named here is
\* `=> {}`
invoke_instruction(st, instruction) ==
    LET op == instruction.op
    IN  IF op \in UnaryArms
        THEN LET a == pop_as_value(st, operand_type(op))
             IN  IF a.st # "ok" THEN XErr(a.stack)
                 ELSE push_value(a.stack, unary(op, a.val))
        ELSE IF op \in BinaryArms \cup {"I64Or"}
        THEN LET a == pop_as_value(st, operand_type(op))
             IN  IF a.st # "ok" THEN XErr(a.stack)
                 ELSE LET b == pop_as_value(a.stack, operand_type(op))
                      IN  IF b.st # "ok" THEN XErr(b.stack)
                          ELSE IF op = "I64Or" THEN XOk(b.stack)
                          ELSE push_value(b.stack, binary(op, a.val, b.val))
        ELSE XOk(st)

\* invoke_expression(expression, _frame) from instruction i on
RECURSIVE invoke_expression_loop(_, _, _)
invoke_expression_loop(st, expression, i) ==
    IF i > Len(expression) THEN XOk(st)
    ELSE LET r == invoke_instruction(st, expression[i])
         IN  IF r.st # "ok" THEN r
             ELSE invoke_expression_loop(r.stack, expression, i + 1)

invoke_expression(st, expression, frame) == invoke_expression_loop(st, expression, 1)

\* the match of invoke on (value, value_type)
corresponds(value, value_type) ==
    \/ value.tag = value_type /\ value_type \in {"I32", "I64", "F32", "F64", "V128"}
    \/ value.tag = "Ref" /\ value.v[1] = FunctionAddr(0)[1] /\ value_type = "FuncRef"
    \/ value.tag = "Ref" /\ value.v[1] = RefExtern(0)[1] /\ value_type = "ExternRef"

RECURSIVE push_all(_, _)
push_all(st, values) ==
    IF values = <<>> THEN st
    ELSE push_all(push(st, Entry_Value(Head(values))), Tail(values))

\* Interpreter::invoke on the store s and the stack st
invoke(s, st, function_addr, args) ==
    IF ~(function_addr < Len(s.functions)) THEN XErr(st)
    ELSE LET function_instance == s.functions[function_addr + 1]
         IN  IF function_instance.variant # "Local" THEN XPanic(st)
             ELSE LET params == function_instance.function_type[1]
                  IN  IF Len(params) # Len(args) THEN XErr(st)
                      ELSE IF \E i \in 1..Len(args) : ~corresponds(args[i], params[i])
                      THEN XErr(st)
                      ELSE XOk(push_all(push(st, Entry_Activation(Frame_default)), args))

\* code.locals.iter().for_each(|local| locals.push(..)): the entries pushed
defaults(locals) ==
    [k \in 1..Len(locals) |-> Entry_Value(Value_default(locals[k].value_type))]

\* Interpreter::invoke_function_call on the store s and the stack st
invoke_function_call(s, st, function_addr) ==
    IF ~(function_addr < Len(s.functions)) THEN XPanic(st)
    ELSE LET function_instance == s.functions[function_addr + 1]
         IN  IF function_instance.variant # "Local" THEN XPanic(st)
             ELSE LET function_type == function_instance.function_type
                      code == function_instance.code
                      num_args == Len(function_type[1])
                      popped == pop_n(st, num_args)
                      locals == popped.val \o defaults(code.locals)
                      num_ret_args == Len(function_type[2])
                      f == [arity |-> num_ret_args,
                            locals |-> [k \in 1..Len(locals) |-> locals[k].value],
                            module |-> function_instance.module]
                      l == [arity |-> num_ret_args, continuation |-> code.body]
                  IN  IF popped.st # "ok" THEN XErr(st)
                      ELSE IF \E k \in 1..Len(locals) : locals[k].entry # "Value"
                      THEN XErr(popped.stack)
                      ELSE invoke_expression(
                               push(push(popped.stack, Entry_Activation(f)), Entry_Label(l)),
                               code.body, f)

(***************************************************************************)
(* Inputs of the codec.                                                    *)
(***************************************************************************)
\* the 32-bit patterns with exactly the bits of S set
BitsOf(S) == [k \in 1..W32 |-> IF k \in S THEN 1 ELSE 0]

Invert(v) == [k \in 1..Len(v) |-> 1 - v[k]]

\* the subsets of 1..W32 with at most k elements
RECURSIVE SparseSets(_)
SparseSets(k) ==
    IF k = 0 THEN {{}}
    ELSE SparseSets(k - 1) \cup {S \cup {i} : S \in SparseSets(k - 1), i \in 1..W32}

\* tests::TEST_VALUES: i32::MIN, i32::MIN + 1, -1, 0, 1, 2, 10, 20, 63, 64,
\* 65, 127, 128, 129, 255, 256, 257, i32::MAX
TEST_VALUES ==
    {BitsOf({W32}), BitsOf({1, W32}), Invert(Zero(W32)), Invert(BitsOf({W32}))}
        \cup {IntBits(n, W32) :
                 n \in {0, 1, 2, 10, 20, 63, 64, 65, 127, 128, 129, 255, 256, 257}}

Values32 ==
    TEST_VALUES
        \cup {BitsOf(S) : S \in SparseSets(MaxSetBits)}
        \cup {Invert(BitsOf(S)) : S \in SparseSets(MaxSetBits)}
        \cup {IntBits(n, W32) : n \in 0..MaxSmall}

ContBytes == {128, 255}
FinalBytes == {0, 1, 2, 15, 16, 64, 127}

RECURSIVE ContSeqs(_)
ContSeqs(k) ==
    IF k = 0 THEN {<<>>}
    ELSE {Append(s, c) : s \in ContSeqs(k - 1), c \in ContBytes}

Tails == {<<>>} \cup {<<f>> : f \in FinalBytes}

RawBuffers ==
    UNION {{p \o t : p \in ContSeqs(k), t \in Tails} : k \in 0..MaxCont}


\* a canonical encoding enc padded with k redundant groups: the final byte
\* gets its continuation bit, k - 1 bytes 0x80 follow, and 0x00 ends it
Pad(enc, k) ==
    [i \in 1..(Len(enc) + k) |->
        IF i < Len(enc) THEN enc[i]
        ELSE IF i = Len(enc) THEN enc[i] + 128
        ELSE IF i < Len(enc) + k THEN 128
        ELSE 0]

NoValue == <<>>

\* the longest buffer handed to write_u32
MaxBuf == 6

\* the buffers a caller hands to write_u32: any length, any content
WriteBuffers == {[i \in 1..n |-> f] : n \in 0..MaxBuf, f \in {0, 255}}

CodecInputs ==
    [kind : {"u32", "i32"}, val : Values32, bytes : {<<>>}, pad : {0}]
        \cup [kind : {"write"}, val : Values32, bytes : WriteBuffers, pad : {0}]
        \cup [kind : {"bytes"}, val : {NoValue}, bytes : RawBuffers, pad : {0}]
        \cup [kind : {"padded"}, val : Values32, bytes : {<<>>}, pad : 1..MaxPad]

(***************************************************************************)
(* The codec under its callers: leb128.rs's tests and direct reads.        *)
(***************************************************************************)
NoResult == [ok |-> FALSE]

InitLeb ==
    /\ pc = "start"
    /\ input \in CodecInputs
    /\ buf = <<>>
    /\ wr = NoResult
    /\ rd = NoResult
    /\ cursor = 0
    /\ sections = <<>>
    /\ outcome = "none"
    /\ store = Store_new
    /\ module_instances = <<>>
    /\ calls = 0
    /\ stack = <<>>

\* let mut buf = [0u8; MAX_LEB128_LEN_32]
FreshBuf == [i \in 1..MAX_LEB128_LEN_32 |-> 0]

\* tests::test_u32: write x, then read the written prefix
test_u32 ==
    /\ pc = "start"
    /\ input.kind = "u32"
    /\ LET w == write_u32(FreshBuf, input.val)
       IN  /\ wr' = w
           /\ buf' = w.buf
           /\ rd' = IF w.ok THEN read_u32(SubSeq(w.buf, 1, w.n)) ELSE NoResult
    /\ pc' = "test_u32"
    /\ UNCHANGED <<input, cursor, sections, outcome>>
    /\ UNCHANGED <<store, module_instances, calls, stack>>

\* tests::test_i32
test_i32 ==
    /\ pc = "start"
    /\ input.kind = "i32"
    /\ LET w == write_i32(FreshBuf, input.val)
       IN  /\ wr' = w
           /\ buf' = w.buf
           /\ rd' = IF w.ok THEN read_i32(SubSeq(w.buf, 1, w.n)) ELSE NoResult
    /\ pc' = "test_i32"
    /\ UNCHANGED <<input, cursor, sections, outcome>>
    /\ UNCHANGED <<store, module_instances, calls, stack>>

\* a caller decoding raw bytes with one of the four readers
call_read_u32 ==
    /\ pc = "start"
    /\ input.kind = "bytes"
    /\ buf' = input.bytes
    /\ rd' = read_u32(input.bytes)
    /\ pc' = "read_u32"
    /\ UNCHANGED <<input, wr, cursor, sections, outcome>>
    /\ UNCHANGED <<store, module_instances, calls, stack>>

call_read_i32 ==
    /\ pc = "start"
    /\ input.kind = "bytes"
    /\ buf' = input.bytes
    /\ rd' = read_i32(input.bytes)
    /\ pc' = "read_i32"
    /\ UNCHANGED <<input, wr, cursor, sections, outcome>>
    /\ UNCHANGED <<store, module_instances, calls, stack>>

call_read_u64 ==
    /\ pc = "start"
    /\ input.kind = "bytes"
    /\ buf' = input.bytes
    /\ rd' = read_u64(input.bytes)
    /\ pc' = "read_u64"
    /\ UNCHANGED <<input, wr, cursor, sections, outcome>>
    /\ UNCHANGED <<store, module_instances, calls, stack>>

call_read_i64 ==
    /\ pc = "start"
    /\ input.kind = "bytes"
    /\ buf' = input.bytes
    /\ rd' = read_i64(input.bytes)
    /\ pc' = "read_i64"
    /\ UNCHANGED <<input, wr, cursor, sections, outcome>>
    /\ UNCHANGED <<store, module_instances, calls, stack>>

\* a caller decoding a padded (non-canonical) encoding of a value
call_read_padded ==
    /\ pc = "start"
    /\ input.kind = "padded"
    /\ LET w == write_u32(FreshBuf, input.val)
           p == Pad(SubSeq(w.buf, 1, w.n), input.pad)
       IN  /\ wr' = w
           /\ buf' = p
           /\ rd' = read_u32(p)
    /\ pc' = "read_padded"
    /\ UNCHANGED <<input, cursor, sections, outcome>>
    /\ UNCHANGED <<store, module_instances, calls, stack>>

\* a caller encoding a value into a buffer of its own
call_write_u32 ==
    /\ pc = "start"
    /\ input.kind = "write"
    /\ buf' = input.bytes
    /\ wr' = write_u32(input.bytes, input.val)
    /\ pc' = "write_u32"
    /\ UNCHANGED <<input, rd, cursor, sections, outcome>>
    /\ UNCHANGED <<store, module_instances, calls, stack>>

NextLeb ==
    \/ test_u32
    \/ call_write_u32
    \/ test_i32
    \/ call_read_u32
    \/ call_read_i32
    \/ call_read_u64
    \/ call_read_i64
    \/ call_read_padded

SpecLeb == InitLeb /\ [][NextLeb]_vars


(***************************************************************************)
(* Inputs of the decoder: module images built from a preamble and a few    *)
(* sections.                                                               *)
(***************************************************************************)
\* sections per module image of the catalogue
MaxSections == 2
\* `then` and `else` lists of the if instructions tried: up to MaxArm long
MaxArm == 2
\* sub-opcodes tried after the 0xFC and 0xFD prefixes: 0..MaxSub
MaxSub == 20

Preamble == MAGIC_NUMBER \o <<1, 0, 0, 0>>

\* a section as the format frames it: id, size of the payload, payload
\* (payloads here are shorter than 128 bytes: the size is one byte)
Sec(id, payload) == <<id, Len(payload)>> \o payload

\* a code section holding one function without locals whose body is `body`
CodeSec(body) == Sec(CODE_ID, <<1, Len(body) + 2, 0>> \o body \o <<TERM_END_BYTE>>)

\* the preamble cut short, or with one byte changed
BadPreambles ==
    {SubSeq(Preamble, 1, n) : n \in 0..7}
        \cup {[Preamble EXCEPT ![i] = (Preamble[i] + d) % 256] : i \in 1..8, d \in {1, 255}}

SectionCatalogue ==
    { Sec(CUSTOM_ID, <<1, 97>>),                \* custom "a", no bytes
      Sec(CUSTOM_ID, <<1, 97, 7>>),             \* custom "a", one byte
      Sec(CUSTOM_ID, <<0>>),                    \* custom "", no bytes
      <<CUSTOM_ID, 1, 2, 97, 98>>,              \* name longer than the section
      Sec(TYPE_ID, <<0>>),
      Sec(TYPE_ID, <<1, 96, 0, 0>>),            \* () -> ()
      <<TYPE_ID, 5, 0>>,                        \* declared size 5, payload 1
      Sec(IMPORT_ID, <<1, 1, 109, 1, 102, 0, 0>>),
      Sec(FUNCTION_ID, <<1, 0>>),
      Sec(TABLE_ID, <<1, 112, 0, 1>>),
      Sec(MEMORY_ID, <<1, 1, 1, 2>>),
      Sec(GLOBAL_ID, <<1, 127, 0, 65, 0, 11>>),
      Sec(EXPORT_ID, <<1, 1, 102, 0, 0>>),
      Sec(START_ID, <<0>>),
      Sec(ELEMENT_ID, <<1, 1, 0, 1, 0>>),
      CodeSec(<<1>>),
      Sec(DATA_ID, <<1, 1, 1, 42>>),
      Sec(DATA_COUNT_ID, <<1>>),
      <<13, 0>> }                                \* no such section id

RECURSIVE Concat(_)
Concat(ss) == IF ss = <<>> THEN <<>> ELSE Head(ss) \o Concat(Tail(ss))

RECURSIVE SectionLists(_)
SectionLists(n) ==
    IF n = 0 THEN {<<>>}
    ELSE SectionLists(n - 1)
             \cup {Append(l, x) : l \in SectionLists(n - 1), x \in SectionCatalogue}

\* lists of field-less instructions, as (opcode, variant) pairs
ArmOps == {<<1, "Nop">>, <<26, "Drop">>}

RECURSIVE Arms(_)
Arms(n) ==
    IF n = 0 THEN {<<>>}
    ELSE Arms(n - 1) \cup {Append(a, o) : a \in Arms(n - 1), o \in ArmOps}

\* block types as (encoding, BlockType) pairs
BlockTypes == {<<<<64>>, Empty>>, <<<<127>>, SingleValue("I32")>>}

\* the encoding of an if instruction as the format lays it out: 0x04, the
\* block type, the then-list, 0x05 and the else-list when there is an else,
\* 0x0B
EncodeIf(i) ==
    <<4>> \o i.bt[1] \o [k \in 1..Len(i.then) |-> i.then[k][1]]
          \o (IF i.has_else
              THEN <<TERM_ELSE_BYTE>> \o [k \in 1..Len(i.else) |-> i.else[k][1]]
              ELSE <<>>)
          \o <<TERM_END_BYTE>>

\* block types of structured instructions as (encoding, BlockType) pairs: the
\* two of BlockTypes and type indices in signed LEB128
BlockEncodings ==
    BlockTypes \cup { <<<<0>>, TypeIndex(IntBits(0, W32))>>,
                      <<<<1>>, TypeIndex(IntBits(1, W32))>>,
                      <<<<128, 1>>, TypeIndex(IntBits(128, W32))>> }

\* block and loop as (opcode, variant) pairs
BlockOps == {<<2, "Block">>, <<3, "Loop">>}

\* the encoding of a block or loop: opcode, block type, body, 0x0B
EncodeBlock(i) ==
    <<i.op[1]>> \o i.bt[1] \o [k \in 1..Len(i.body) |-> i.body[k][1]]
                \o <<TERM_END_BYTE>>

\* the memory instructions with reserved bytes: variant, the bytes before
\* the reserved ones, the operands and the number of reserved bytes
MemoryOps ==
    { [name |-> "MemorySize", code |-> <<63>>, args |-> <<>>, reserved |-> 1],
      [name |-> "MemoryGrow", code |-> <<64>>, args |-> <<>>, reserved |-> 1],
      [name |-> "MemoryFill", code |-> <<252, 11>>, args |-> <<>>, reserved |-> 1],
      [name |-> "MemoryCopy", code |-> <<252, 10>>, args |-> <<>>, reserved |-> 2],
      [name |-> "MemoryInit", code |-> <<252, 8, 1>>,
       args |-> <<IntBits(1, W32)>>, reserved |-> 1] }

\* the bytes tried in the reserved positions
ReservedBytes == {0, 1, 128, 255}

\* opcode, operands and reserved bytes of a memory instruction
EncodeMemory(i) == i.op.code \o SubSeq(i.reserved, 1, i.op.reserved)

ModuleInputs ==
    [kind : {"preamble"}, pre : BadPreambles, secs : SectionLists(1)]
        \cup [kind : {"sections"}, pre : {Preamble}, secs : SectionLists(MaxSections)]
        \cup [kind : {"opcode"}, opcode : 0..255, sub : {0}]
        \cup [kind : {"opcode"}, opcode : {252, 253}, sub : 0..MaxSub]
        \cup {i \in [kind : {"if"}, bt : BlockTypes, then : Arms(MaxArm),
                     else : Arms(MaxArm), has_else : BOOLEAN] :
                 i.has_else \/ i.else = <<>>}
        \cup [kind : {"block"}, op : BlockOps, bt : BlockEncodings, body : Arms(MaxArm)]
        \cup {i \in [kind : {"memory"}, op : MemoryOps,
                     reserved : ReservedBytes \X ReservedBytes] :
                 i.op.reserved = 1 => i.reserved[2] = 0}

\* the bytes of a module input
Image(i) ==
    CASE i.kind \in {"preamble", "sections"} -> i.pre \o Concat(i.secs)
      [] i.kind = "opcode" ->
            Preamble \o CodeSec(<<i.opcode, i.sub, 0, 0, 0, 0, 0, 0, 0>>)
      [] i.kind = "if" -> Preamble \o CodeSec(EncodeIf(i))
      [] i.kind = "block" -> Preamble \o CodeSec(EncodeBlock(i))
      [] i.kind = "memory" -> Preamble \o CodeSec(EncodeMemory(i))

(***************************************************************************)
(* Parser::new and Parser::parse.                                          *)
(***************************************************************************)
\* Parser::new(buffer)
Init ==
    /\ pc = "new"
    /\ input \in ModuleInputs
    /\ buf = Image(input)
    /\ cursor = 0
    /\ sections = <<>>
    /\ outcome = "running"
    /\ wr = NoResult
    /\ rd = NoResult
    /\ store = Store_new
    /\ module_instances = <<>>
    /\ calls = 0
    /\ stack = <<>>

\* parse: the preamble
parse_version ==
    /\ pc = "new"
    /\ LET r == Parser("parse_preamble", buf, cursor, <<>>)
       IN  /\ cursor' = r.cur
           /\ pc' = IF r.st = "ok" THEN "sections" ELSE "done"
           /\ outcome' = IF r.st = "ok" THEN "running" ELSE r.st
    /\ UNCHANGED <<input, buf, wr, rd, sections>>
    /\ UNCHANGED <<store, module_instances, calls, stack>>

\* parse: one turn of the section loop
parse_one_section ==
    /\ pc = "sections"
    /\ cursor < Len(buf)
    /\ LET r == (LET id == Parser("read_u8", buf, cursor, <<>>) IN IF id.st # "ok" THEN id ELSE
                Parser("parse_section", buf, id.cur, id.val))
       IN  /\ cursor' = r.cur
           /\ pc' = IF r.st = "ok" THEN "sections" ELSE "done"
           /\ outcome' = IF r.st = "ok" THEN "running" ELSE r.st
           /\ sections' = IF r.st = "ok" THEN Append(sections, r.val) ELSE sections
    /\ UNCHANGED <<input, buf, wr, rd>>
    /\ UNCHANGED <<store, module_instances, calls, stack>>

\* parse: the loop ends at the end of the buffer, Ok(())
parse_return ==
    /\ pc = "sections"
    /\ ~(cursor < Len(buf))
    /\ pc' = "done"
    /\ outcome' = "ok"
    /\ UNCHANGED <<input, buf, wr, rd, cursor, sections>>
    /\ UNCHANGED <<store, module_instances, calls, stack>>

Next ==
    \/ parse_version
    \/ parse_one_section
    \/ parse_return

Spec == Init /\ [][Next]_vars

(***************************************************************************)
(* Names: the items of the format that hold a name, decoded from buffers   *)
(* whose name is of a chosen length.  The state keeps the length of the    *)
(* decoded name instead of its bytes.                                      *)
(***************************************************************************)
\* lengths of the short names tried: 0..MaxName
MaxName == 20

\* the u32 n in LEB128, as write_u32 lays it out
Leb(n) ==
    LET w == write_u32(FreshBuf, IntBits(n, W32))
    IN  SubSeq(w.buf, 1, w.n)

\* the places of the format that hold a name
NameSites == {"import module", "import name", "export name", "custom name"}

\* the lengths tried: short names, the largest string and one byte more
NameLens == (0..MaxName) \cup {MAX_STRING_SIZE, MAX_STRING_SIZE + 1}

\* a name of n bytes, all 'a', with its length prefix
LongName(n) == Leb(n) \o [k \in 1..n |-> 97]

\* the bytes of an item whose name of the site is n bytes long: an import of
\* function type 0, an export of function 0, the contents of a custom
\* section (followed by an empty type section)
NameItem(site, n) ==
    CASE site = "import module" -> LongName(n) \o <<1, 102, 0, 0>>
      [] site = "import name" -> <<1, 109>> \o LongName(n) \o <<0, 0>>
      [] site = "export name" -> LongName(n) \o <<0, 0>>
      [] site = "custom name" -> LongName(n) \o Sec(TYPE_ID, <<0>>)

NameInputs == [kind : {"name"}, site : NameSites, len : NameLens]

InitName ==
    /\ pc = "start"
    /\ input \in NameInputs
    /\ buf = <<>>
    /\ cursor = 0
    /\ sections = <<>>
    /\ outcome = "none"
    /\ wr = NoResult
    /\ rd = NoResult
    /\ store = Store_new
    /\ module_instances = <<>>
    /\ calls = 0
    /\ stack = <<>>

\* the item of the site is decoded by its parser from a Parser over its
\* bytes: the outcome, the cursor and the length of the name are kept
parse_named_item ==
    /\ pc = "start"
    /\ LET b == NameItem(input.site, input.len)
           r == CASE input.site \in {"import module", "import name"} ->
                        Parser("parse_import", b, 0, <<>>)
                  [] input.site = "export name" ->
                        Parser("parse_export", b, 0, <<>>)
                  [] input.site = "custom name" ->
                        Parser("parse_custom_section", b, 0,
                               IntBits(Len(LongName(input.len)), W32))
           name == IF input.site = "import module" THEN r.val.module
                   ELSE r.val.name
       IN  rd' = [st |-> r.st, cur |-> r.cur,
                  len |-> IF r.st = "ok" THEN Len(name) ELSE 0]
    /\ pc' = "named"
    /\ UNCHANGED <<input, buf, wr, cursor, sections, outcome>>
    /\ UNCHANGED <<store, module_instances, calls, stack>>

NextName == parse_named_item

SpecName == InitName /\ [][NextName]_vars

(***************************************************************************)
(* Instantiation: Interpreter::new, and Store::allocate_module called on a *)
(* store that the embedder keeps.                                          *)
(***************************************************************************)
\* local functions per module: 0..MaxFuncs
MaxFuncs == 2
\* minimum of a declared memory, in pages: 0..MaxPages
MaxPages == 2
\* declared imports per module: 0..MaxImports
MaxImports == 2
\* calls of allocate_module on one store
MaxCalls == 2

\* the function type () -> ()
FT0 == <<<<>>, <<>>>>

Function(type_index) == [type_index |-> type_index, locals |-> <<>>, body |-> <<>>]

TableType(min, max) ==
    [element_reference_type |-> "FuncRef", limit |-> [min |-> min, max |-> max]]

MemoryType(min, max) == <<[min |-> min, max |-> max]>>

GlobalType == [value_type |-> "I32", mutability |-> "Const"]

Global == [global_type |-> GlobalType, initial_expression |-> <<>>]

RECURSIVE SeqsUpTo(_, _)
SeqsUpTo(S, n) ==
    IF n = 0 THEN {<<>>}
    ELSE SeqsUpTo(S, n - 1) \cup {Append(q, x) : q \in SeqsUpTo(S, n - 1), x \in S}

\* the items a module declares itself: functions of type 0 (or one function
\* whose type index is out of range), at most one memory, and either no
\* table, global, element and data segment or one of each; `values` tells
\* whether the embedder supplies the initial value of the global
Locals ==
    [functions : SeqsUpTo({Function(0)}, MaxFuncs) \cup {<<Function(1)>>},
     mems : {<<>>} \cup {<<MemoryType(m, MaxPages)>> : m \in 0..MaxPages},
     rest : BOOLEAN, values : BOOLEAN]

\* exports: of function 0 or 1, of table, memory or global 0
ExportLists ==
    {<<>>, <<[name |-> "g", description |-> <<"Func", 0>>],
             [name |-> "h", description |-> <<"Global", 0>>]>>}
        \cup {<<[name |-> "e", description |-> d]>> :
                 d \in {<<"Func", 0>>, <<"Func", 1>>, <<"Table", 0>>,
                        <<"Mem", 0>>, <<"Global", 0>>}}

\* the imports a module may declare
ImportDeclarations ==
    { [module |-> "m", name |-> "f", description |-> <<"Func", 0>>],
      [module |-> "m", name |-> "t", description |-> <<"Table", TableType(1, 2)>>],
      [module |-> "m", name |-> "m", description |-> <<"Mem", MemoryType(1, 2)>>],
      [module |-> "m", name |-> "g", description |-> <<"Global", GlobalType>>] }

\* Module: the fields allocate_module reads
Module(l, imports, exports) ==
    [types |-> <<FT0>>,
     functions |-> l.functions,
     tables |-> IF l.rest THEN <<TableType(1, 2)>> ELSE <<>>,
     mems |-> l.mems,
     globals |-> IF l.rest THEN <<Global>> ELSE <<>>,
     element_segments |-> IF l.rest THEN <<Segment("FuncRef", <<>>, "Passive")>> ELSE <<>>,
     data_segments |-> IF l.rest THEN <<[bytes |-> <<42>>, mode |-> "Passive"]>> ELSE <<>>,
     imports |-> imports,
     exports |-> exports]

\* the external value an embedder supplies for a declared import: a host
\* function, a table of one reference, a memory of one byte, a global
Supplied(d) ==
    [module |-> d.module, name |-> d.name,
     value |-> CASE d.description[1] = "Func" -> <<"Func", "host">>
                 [] d.description[1] = "Table" -> <<"Table", <<"RefExtern">>>>
                 [] d.description[1] = "Mem" -> <<"Memory", <<7>>>>
                 [] d.description[1] = "Global" -> <<"Global", "I32(7)">>]

\* what the embedder does with the declared imports: it supplies them in
\* order or in reverse order, leaves the last one out, adds one the module
\* does not declare, supplies the last one under another name, supplies the
\* first one with a value of another kind, or supplies tables and memories
\* that hold nothing
Supplies == {"exact", "reversed", "missing", "extra", "renamed", "other kind", "empty"}

SuppliedImports(declared, how) ==
    LET n == Len(declared)
        exact == [i \in 1..n |-> Supplied(declared[i])]
    IN  CASE how = "exact" -> exact
          [] how = "reversed" -> [i \in 1..n |-> exact[n + 1 - i]]
          [] how = "missing" -> SubSeq(exact, 1, n - 1)
          [] how = "extra" ->
                Append(exact, [module |-> "m", name |-> "x", value |-> <<"Func", "host">>])
          [] how = "renamed" ->
                [i \in 1..n |-> IF i = n THEN [exact[i] EXCEPT !.name = "x"] ELSE exact[i]]
          [] how = "other kind" ->
                [i \in 1..n |->
                    IF i > 1 THEN exact[i]
                    ELSE [exact[i] EXCEPT !.value =
                            IF @[1] = "Func" THEN <<"Global", "I32(7)">>
                            ELSE <<"Func", "host">>]]
          [] how = "empty" ->
                [i \in 1..n |->
                    IF exact[i].value[1] \in {"Table", "Memory"}
                    THEN [exact[i] EXCEPT !.value = <<@[1], <<>>>>]
                    ELSE exact[i]]

\* the arguments of an instantiation
Instantiation(l, declared, how, exports) ==
    [module |-> Module(l, declared, exports),
     imports |-> SuppliedImports(declared, how),
     initial_global_values |-> IF l.rest /\ l.values THEN <<"I32(0)">> ELSE <<>>,
     element_segment_refs |-> IF l.rest THEN <<<<"Null">>>> ELSE <<>>]

NoItems == [functions |-> <<>>, mems |-> <<>>, rest |-> FALSE, values |-> TRUE]
OneOfEach ==
    [functions |-> <<Function(0)>>, mems |-> <<MemoryType(1, MaxPages)>>,
     rest |-> TRUE, values |-> TRUE]

\* modules without imports of every shape, and modules with imports that
\* declare nothing or one item of each kind themselves
StoreInputs ==
    {Instantiation(l, <<>>, "exact", e) : l \in Locals, e \in ExportLists}
        \cup {Instantiation(l, d, h, e) :
                 l \in {NoItems, OneOfEach},
                 d \in SeqsUpTo(ImportDeclarations, MaxImports),
                 h \in Supplies, e \in ExportLists}

InitStore ==
    /\ pc = "start"
    /\ input \in StoreInputs
    /\ store = Store_new
    /\ module_instances = <<>>
    /\ calls = 0
    /\ stack = <<>>
    /\ outcome = "none"
    /\ buf = <<>>
    /\ cursor = 0
    /\ sections = <<>>
    /\ wr = NoResult
    /\ rd = NoResult

\* Interpreter::new on the module of the input (the value of parse_module)
\* with the supplied imports: the interpreter owns the store and the module
\* instance of an Ok
Interpreter_new ==
    /\ pc = "start"
    /\ IF Len(input.module.imports) # Len(input.imports)
       THEN /\ outcome' = "err"
            /\ UNCHANGED <<store, module_instances>>
       ELSE LET r == allocate_module(Store_new, input.module, input.imports,
                                     input.initial_global_values,
                                     input.element_segment_refs)
            IN  /\ outcome' = r.st
                /\ store' = IF r.st = "ok" THEN r.store ELSE store
                /\ module_instances' =
                      IF r.st = "ok" THEN <<r.module_instance>> ELSE module_instances
    /\ pc' = "interpreter"
    /\ UNCHANGED <<input, buf, wr, rd, cursor, sections, calls, stack>>

\* store.allocate_module(..) on a store the embedder holds: the module of
\* the input is instantiated (again)
call_allocate_module ==
    /\ pc \in {"start", "store"}
    /\ calls < MaxCalls
    /\ LET r == allocate_module(store, input.module, input.imports,
                                input.initial_global_values,
                                input.element_segment_refs)
       IN  /\ outcome' = r.st
           /\ store' = r.store
           /\ module_instances' =
                 IF r.st = "ok" THEN Append(module_instances, r.module_instance)
                 ELSE module_instances
    /\ calls' = calls + 1
    /\ pc' = "store"
    /\ UNCHANGED <<input, buf, wr, rd, cursor, sections, stack>>

NextStore ==
    \/ Interpreter_new
    \/ call_allocate_module

SpecStore == InitStore /\ [][NextStore]_vars

(***************************************************************************)
(* The interpreter under an embedder: a module of functions of several     *)
(* signatures is instantiated, a function is invoked with arguments, and   *)
(* the private methods invoke_function_call and invoke_expression are run  *)
(* on the stack the invocation leaves.                                     *)
(***************************************************************************)
\* the longest argument list handed to invoke
MaxArgs == 2

\* the number of invocations made of one interpreter
MaxInvokes == 2

\* the number of values a declaration of locals may count
MaxLocals == 2

\* the function types of the module, (params, results)
ExecTypes ==
    << <<<<"I32", "I32">>, <<"I32">>>>,
       <<<<"I64", "I64">>, <<"I64">>>>,
       <<<<"F32", "F32">>, <<"F32">>>>,
       <<<<"F64", "F64">>, <<"F64">>>>,
       <<<<"I32">>, <<"I32">>>>,
       <<<<"I64">>, <<"I64">>>>,
       <<<<"F32">>, <<"F32">>>>,
       <<<<"F64">>, <<"F64">>>>,
       <<<<"FuncRef", "ExternRef">>, <<>>>>,
       <<<<>>, <<>>>> >>

\* add(i32, i32) -> i32 = local.get 0; local.get 1; i32.add
AddBody == <<Instr("LocalGet", <<0>>), Instr("LocalGet", <<1>>), Instr("I32Add", <<>>)>>

\* the declarations of locals a function body starts with
LocalDeclarations ==
    {<<>>} \cup {<<[count |-> n, value_type |-> t]>> : n \in 0..MaxLocals, t \in {"I32", "FuncRef"}}
        \cup {<<[count |-> MaxLocals, value_type |-> "I64"], [count |-> 1, value_type |-> "F32"]>>}

\* the module: function k has type k; function 0 is add, the others have
\* an empty body; one function is imported
ExecModule(locals) ==
    [types |-> ExecTypes,
     functions |-> [k \in 1..Len(ExecTypes) |->
                       [type_index |-> k - 1,
                        locals |-> IF k = 1 THEN <<>> ELSE locals,
                        body |-> IF k = 1 THEN AddBody ELSE <<>>]],
     tables |-> <<>>, mems |-> <<>>, globals |-> <<>>,
     element_segments |-> <<>>, data_segments |-> <<>>,
     imports |-> <<[module |-> "m", name |-> "f", description |-> <<"Func", 0>>]>>,
     exports |-> <<>>]

ExecImports == <<[module |-> "m", name |-> "f", value |-> <<"Func", "host">>]>>

\* the address of the imported function, and an address of no function
HostAddr == Len(ExecTypes)
NoAddr == Len(ExecTypes) + 1

I32_MIN == BitsOf({W32})
I32_MAX == Invert(BitsOf({W32}))
I64_MIN == [k \in 1..W64 |-> IF k = W64 THEN 1 ELSE 0]
I64_MAX == Invert(I64_MIN)

Extend(v) == [k \in 1..W64 |-> IF k <= W32 THEN v[k] ELSE v[W32]]

ValuesI32 ==
    {IntBits(n, W32) : n \in {0, 1, 7, 35, 65536}} \cup {Invert(Zero(W32)), I32_MIN, I32_MAX}

ValuesI64 ==
    {Extend(IntBits(n, W32)) : n \in {0, 1, 7, 35}}
        \cup {Invert(Zero(W64)), I64_MIN, I64_MAX, Extend(I32_MIN), Shl(Extend(IntBits(1, W32)), W32)}

ValuesFloat == {Num(n) : n \in {0 - 1, 0, 2, 4}} \cup {NaN}

\* the values of the type of a parameter
ValuesOf(value_type) ==
    CASE value_type = "I32" -> {I32(v) : v \in ValuesI32}
      [] value_type = "I64" -> {I64(v) : v \in ValuesI64}
      [] value_type = "F32" -> {F32(v) : v \in ValuesFloat}
      [] value_type = "F64" -> {F64(v) : v \in ValuesFloat}
      [] value_type = "V128" -> {V128(<<0>>)}
      [] value_type = "FuncRef" -> {Ref(FunctionAddr(0))}
      [] value_type = "ExternRef" -> {Ref(RefExtern(0))}

\* one value of every tag and every reference: the arguments an embedder
\* may hand over, of the right type or not
AnyValues ==
    {I32(IntBits(7, W32)), I32(IntBits(35, W32)), I64(Zero(W64)), F32(Num(2)),
     F64(Num(2)), V128(<<0>>), Ref(Null), Ref(FunctionAddr(0)),
     Ref(RefExtern(0))}

\* the argument lists of the types of params
RECURSIVE TypedArgs(_)
TypedArgs(params) ==
    IF params = <<>> THEN {<<>>}
    ELSE {<<v>> \o rest : v \in ValuesOf(Head(params)), rest \in TypedArgs(Tail(params))}

\* the instructions run on the arguments: every arm that pops, the arms of
\* div, rem and a few more that are empty, and sequences of two
Executed ==
    {<<Instr(op, <<>>)>> :
        op \in I32Arms \cup I64Arms \cup F32Arms \cup F64Arms
                 \cup {"I32DivSigned", "I32DivUnsigned", "I32RemainderSigned",
                       "I32RemainderUnsigned", "I64DivSigned", "I64DivUnsigned",
                       "I64RemainderSigned", "I64RemainderUnsigned", "I32And",
                       "I32Or", "I32EqZero", "F64Eq", "Nop", "Unreachable"}}
        \cup {<<Instr(a, <<>>), Instr(b, <<>>)>> :
                 a \in {"I32DivSigned", "I64DivUnsigned", "I32Add", "I64Or"},
                 b \in {"I32Sub", "I64EqZero"}}

ExecInputs ==
    [kind : {"invoke"}, function_addr : 0..NoAddr, args : SeqsUpTo(AnyValues, MaxArgs),
     expression : {<<>>}, locals : {<<>>}]
        \cup UNION {[kind : {"expression"}, function_addr : {k - 1},
                     args : TypedArgs(ExecTypes[k][1]), expression : Executed,
                     locals : {<<>>}] : k \in 1..Len(ExecTypes)}
        \cup UNION {[kind : {"call"}, function_addr : {k - 1},
                     args : {CHOOSE a \in TypedArgs(ExecTypes[k][1]) : TRUE},
                     expression : {<<>>}, locals : LocalDeclarations] :
                        k \in 1..Len(ExecTypes)}

\* the value () of an Ok(())
Unit == <<>>

\* Interpreter::new has returned the interpreter of the module
InitExec ==
    /\ pc = "interpreter"
    /\ input \in ExecInputs
    /\ LET r == allocate_module(Store_new, ExecModule(input.locals), ExecImports, <<>>, <<>>)
       IN  /\ store = r.store
           /\ module_instances = <<r.module_instance>>
    /\ stack = <<>>
    /\ calls = 0
    /\ outcome = "none"
    /\ buf = <<>>
    /\ cursor = 0
    /\ sections = <<>>
    /\ wr = NoResult
    /\ rd = NoResult

\* interpreter.invoke(function_addr, args)
call_invoke ==
    /\ pc \in {"interpreter", "invoked"}
    /\ calls < MaxInvokes
    /\ LET r == invoke(store, stack, input.function_addr, input.args)
       IN  /\ stack' = r.stack
           /\ outcome' = r.st
           /\ rd' = [st |-> r.st, val |-> Unit]
           /\ pc' = IF r.st = "panic" THEN "aborted" ELSE "invoked"
    /\ calls' = calls + 1
    /\ UNCHANGED <<input, buf, wr, cursor, sections, store, module_instances>>

\* self.invoke_function_call(function_addr) on the stack as it is
call_invoke_function_call ==
    /\ pc \in {"interpreter", "invoked"}
    /\ LET r == invoke_function_call(store, stack, input.function_addr)
       IN  /\ stack' = r.stack
           /\ outcome' = r.st
           /\ pc' = IF r.st = "panic" THEN "aborted" ELSE "called"
    /\ UNCHANGED <<input, buf, wr, rd, cursor, sections, store, module_instances, calls>>

\* self.invoke_expression(expression, frame) on the stack as it is
call_invoke_expression ==
    /\ pc = "invoked"
    /\ input.kind = "expression"
    /\ LET r == invoke_expression(stack, input.expression, Frame_default)
       IN  /\ stack' = r.stack
           /\ outcome' = r.st
           /\ pc' = "executed"
    /\ UNCHANGED <<input, buf, wr, rd, cursor, sections, store, module_instances, calls>>

NextExec ==
    \/ call_invoke
    \/ call_invoke_function_call
    \/ call_invoke_expression

SpecExec == InitExec /\ [][NextExec]_vars

(***************************************************************************)
(* Properties of the codec.                                                *)
(***************************************************************************)
\* the 1-based index of the first byte of b whose continuation bit is clear,
\* 0 when there is none
Terminator(b) ==
    IF \E i \in 1..Len(b) : b[i] < 128
    THEN CHOOSE i \in 1..Len(b) : b[i] < 128 /\ \A j \in 1..(i - 1) : b[j] >= 128
    ELSE 0

\* bit k (from 1) of the concatenated 7-bit groups of b
GroupBit(b, k) == (b[((k - 1) \div 7) + 1] \div (2 ^ ((k - 1) % 7))) % 2

\* the signed LEB128 value of b whose terminator is byte n: the groups,
\* sign-extended from the last payload bit
SignedValue(b, n, w) ==
    [k \in 1..w |-> IF k <= 7 * n THEN GroupBit(b, k) ELSE GroupBit(b, 7 * n)]

\* b starts with a well-formed signed encoding of a w-bit integer: it ends
\* within maxlen bytes, and the bits of the final group beyond the width
\* repeat the sign bit
WellFormedSigned(b, w, maxlen) ==
    LET n == Terminator(b)
    IN  /\ n >= 1
        /\ n <= maxlen
        /\ \A k \in (w + 1)..(7 * n) : GroupBit(b, k) = GroupBit(b, w)

\* C1: encoding a u32 or an i32 into a 5-byte buffer and decoding the written
\* prefix returns the value, and the decoder consumes as many bytes as the
\* encoder wrote.
C1_RoundTrip ==
    pc \in {"test_u32", "test_i32"} =>
        /\ wr.ok
        /\ rd.ok
        /\ rd.val = input.val
        /\ rd.n = wr.n

\* i32::MIN went through write_i32 and read_i32 in five bytes
C1_Witness ==
    /\ pc = "test_i32"
    /\ input.val = BitsOf({W32})
    /\ wr.ok
    /\ wr.n = MAX_LEB128_LEN_32
    /\ rd.ok

\* C2: read_i32 and read_i64 decode a well-formed signed LEB128 encoding to
\* the two's-complement value of its 7-bit groups, sign-extended from the
\* last payload bit (0x7F is -1, 0x40 is -64).
C2_SignExtends ==
    /\ (pc = "read_i32" /\ WellFormedSigned(buf, W32, MAX_LEB128_LEN_32)) =>
          /\ rd.ok
          /\ rd.val = SignedValue(buf, Terminator(buf), W32)
          /\ rd.n = Terminator(buf)
    /\ (pc = "read_i64" /\ WellFormedSigned(buf, W64, MAX_LEB128_LEN_64)) =>
          /\ rd.ok
          /\ rd.val = SignedValue(buf, Terminator(buf), W64)
          /\ rd.n = Terminator(buf)

\* C3: read_u32 fails when the fifth byte carries bits beyond 32 bits (fifth
\* byte > 0x0F), and read_u64 when the tenth byte carries bits beyond 64
\* bits (tenth byte > 0x01).
C3_FinalByteChecked ==
    /\ (/\ pc = "read_u32"
        /\ Len(buf) >= MAX_LEB128_LEN_32
        /\ \A i \in 1..(MAX_LEB128_LEN_32 - 1) : buf[i] >= 128
        /\ buf[MAX_LEB128_LEN_32] > 15) => ~rd.ok
    /\ (/\ pc = "read_u64"
        /\ Len(buf) >= MAX_LEB128_LEN_64
        /\ \A i \in 1..(MAX_LEB128_LEN_64 - 1) : buf[i] >= 128
        /\ buf[MAX_LEB128_LEN_64] > 1) => ~rd.ok

\* C4: read_u32 fails on every buffer none of whose first five bytes has its
\* continuation bit clear (shorter buffers of continuation bytes included);
\* read_u64 does the same for the first ten bytes.
C4_TooLongFails ==
    /\ (/\ pc = "read_u32"
        /\ \A i \in 1..Min(Len(buf), MAX_LEB128_LEN_32) : buf[i] >= 128) => ~rd.ok
    /\ (/\ pc = "read_u64"
        /\ \A i \in 1..Min(Len(buf), MAX_LEB128_LEN_64) : buf[i] >= 128) => ~rd.ok

\* read_u32 was given [0x80, 0x80, 0x80, 0x80, 0x80, 0x80] and failed
C4_Witness ==
    /\ pc = "read_u32"
    /\ buf = <<128, 128, 128, 128, 128, 128>>
    /\ ~rd.ok

\* k - 1 bytes 0x80 followed by 0x00
PaddedZero(k) == [i \in 1..k |-> IF i < k THEN 128 ELSE 0]

\* C5: read_u32 accepts redundant zero groups up to five bytes in all:
\* k - 1 bytes 0x80 and a 0x00 decode to (0, k) for k in 1..5, and a
\* canonical encoding padded to at most five bytes decodes to the same value
\* with the padded length as the bytes consumed.
C5_NonCanonicalAccepted ==
    /\ \A k \in 1..MAX_LEB128_LEN_32 :
          (pc = "read_u32" /\ buf = PaddedZero(k)) => rd = Ok(Zero(W32), k)
    /\ (pc = "read_padded" /\ Len(buf) <= MAX_LEB128_LEN_32) =>
          /\ rd.ok
          /\ rd.val = input.val
          /\ rd.n = Len(buf)

\* a two-byte canonical encoding padded to five bytes was decoded
C5_Witness ==
    /\ pc = "read_padded"
    /\ wr.n = 2
    /\ Len(buf) = MAX_LEB128_LEN_32
    /\ rd.ok
    /\ rd.val # Zero(W32)

(***************************************************************************)
(* Properties of the decoder.                                              *)
(***************************************************************************)
\* the bytes that are no opcode of the format (0x05 and 0x0B delimit)
UnmappedOpcodes ==
    (6..10) \cup (18..25) \cup (29..31) \cup {39} \cup (197..207)
        \cup (211..251) \cup {254, 255}

\* C6: decoding any buffer ends in a module or in an error returned to the
\* caller: a byte without a mapping yields an error, and the decoder never
\* aborts.
C6_AlwaysReturns ==
    /\ outcome \in {"running", "ok", "err"}
    /\ (pc = "done" /\ input.kind = "opcode" /\ input.opcode \in UnmappedOpcodes) =>
          outcome = "err"

\* C7: after each section the cursor stands exactly `size` bytes past the end
\* of the section's size field, custom sections included.
C7_SectionSizeHonoured ==
    \A i \in 1..Len(sections) :
        sections[i].end = sections[i].start + U32ToNat(sections[i].size)

\* C8: the ids of the non-custom sections of a module are strictly
\* increasing: a repeated or out-of-order id is rejected, so it is never
\* recorded after a section of the same or a larger id.
C8_SectionOrder ==
    \A i, j \in 1..Len(sections) :
        (i < j /\ sections[i].id # CUSTOM_ID /\ sections[j].id # CUSTOM_ID) =>
            sections[i].id < sections[j].id

\* the buffer starts with the magic number and version 1
HasPreamble(b) == Len(b) >= 8 /\ SubSeq(b, 1, 8) = Preamble

\* C9: parse fails unless the buffer starts with 0x00 'a' 's' 'm' and
\* 0x01 0x00 0x00 0x00 (a buffer shorter than 8 bytes fails too), and no
\* section is read before the preamble has been accepted.
C9_PreambleRequired ==
    /\ (pc # "new" /\ ~HasPreamble(buf)) =>
          /\ pc = "done"
          /\ outcome = "err"
          /\ sections = <<>>
          /\ cursor <= 8
    /\ (pc = "sections" \/ sections # <<>> \/ outcome = "ok") => HasPreamble(buf)

\* a module with the right magic number, a wrong version and a section
\* behind it was rejected
C9_Witness ==
    /\ pc = "done"
    /\ outcome = "err"
    /\ Len(buf) > 8
    /\ SubSeq(buf, 1, 4) = MAGIC_NUMBER
    /\ buf[5] # 1
    /\ sections = <<>>

\* the Instruction the format assigns to the if instruction i
IfTree(i) ==
    Instr("IfElse",
          << i.bt[2],
             [k \in 1..Len(i.then) |-> Instr(i.then[k][2], <<>>)],
             [k \in 1..Len(i.else) |-> Instr(i.else[k][2], <<>>)] >>)

\* C10: an if instruction decodes to IfElse(block type, then, else): the
\* block type is the one after the opcode, the instructions before 0x05 are
\* the then-list and those between 0x05 and 0x0B the else-list, which is
\* empty without 0x05.
C10_IfElseDecoded ==
    (pc = "done" /\ input.kind = "if") =>
        /\ outcome = "ok"
        /\ Len(sections) = 1
        /\ Len(sections[1].content) = 1
        /\ sections[1].content[1].expression = <<IfTree(input)>>

\* C11: decoding a block type consumes the bytes of its encoding and nothing
\* else (one byte for 0x40 or a value type, the bytes of the signed LEB128
\* type index otherwise) and returns the type index: a block or loop decodes
\* to its block type and the instructions that follow it up to 0x0B.
C11_BlockTypeConsumed ==
    (pc = "done" /\ input.kind = "block") =>
        /\ outcome = "ok"
        /\ Len(sections) = 1
        /\ Len(sections[1].content) = 1
        /\ sections[1].content[1].expression =
              << Instr(input.op[2],
                       << input.bt[2],
                          [k \in 1..Len(input.body) |->
                              Instr(input.body[k][2], <<>>)] >>) >>

\* the reserved bytes of the memory instruction i that are read
ReservedOf(i) == SubSeq(i.reserved, 1, i.op.reserved)

\* C12: memory.size, memory.grow, memory.fill, memory.copy and memory.init
\* decode to their instruction when every reserved byte is 0x00, and a
\* non-zero reserved byte yields a decode error and no instruction.
C12_ReservedBytesZero ==
    (pc = "done" /\ input.kind = "memory") =>
        IF \A k \in 1..input.op.reserved : input.reserved[k] = 0
        THEN /\ outcome = "ok"
             /\ Len(sections) = 1
             /\ sections[1].content[1].expression =
                   <<Instr(input.op.name, input.op.args)>>
        ELSE /\ outcome = "err"
             /\ sections = <<>>

\* memory.copy whose second reserved byte is not 0x00 was rejected
C12_Witness ==
    /\ pc = "done"
    /\ input.kind = "memory"
    /\ input.op.name = "MemoryCopy"
    /\ ReservedOf(input) = <<0, 1>>
    /\ outcome = "err"
    /\ sections = <<>>

\* C13: a name (import module, import name, export name, custom section
\* name) whose declared length exceeds MAX_STRING_SIZE bytes is rejected with
\* a decode error rather than returned.
C13_LongNameRejected ==
    (pc = "named" /\ input.len > MAX_STRING_SIZE) => rd.st = "err"

(***************************************************************************)
(* Properties of the store and of instantiation.                           *)
(***************************************************************************)
StoreArrays ==
    {"functions", "tables", "memories", "globals", "element_segments",
     "data_segments"}

\* the address vector of a module instance that indexes an array of the store
AddrField(array) ==
    CASE array = "functions" -> "function_addrs"
      [] array = "tables" -> "table_addrs"
      [] array = "memories" -> "mem_addrs"
      [] array = "globals" -> "global_addrs"
      [] array = "element_segments" -> "elem_addrs"
      [] array = "data_segments" -> "data_addrs"

IsPrefix(a, b) == Len(a) <= Len(b) /\ SubSeq(b, 1, Len(a)) = a

\* the module instance the last successful instantiation returned
LastInstance == module_instances[Len(module_instances)]

\* C14: a step of the store leaves every entry of the six arrays where it
\* was and as it was; a successful instantiation appends one entry per
\* allocation, and the address of each allocation is the length its array
\* had before the append, so the addresses of the instance count up from the
\* length the array had before the instantiation.
C14_AppendOnly ==
    [][ /\ \A k \in StoreArrays : IsPrefix(store[k], store'[k])
        /\ module_instances' # module_instances =>
              LET mi == module_instances'[Len(module_instances')]
              IN  \A k \in StoreArrays :
                      LET addrs == mi[AddrField(k)]
                      IN  /\ Len(store'[k]) = Len(store[k]) + Len(addrs)
                          /\ \A i \in 1..Len(addrs) :
                                addrs[i] = Len(store[k]) + i - 1 ]_vars

\* a module with local items and imports was instantiated twice into the
\* same store
C14_Witness ==
    /\ pc = "store"
    /\ calls = 2
    /\ Len(module_instances) = 2
    /\ Len(store.functions) >= 4
    /\ Len(store.tables) >= 4
    /\ Len(store.memories) >= 2
    /\ Len(store.data_segments) >= 2

\* C15: the memory instance allocate_memory creates for a memory type of
\* minimum m pages holds m * 65536 bytes, all zero (modules without imports:
\* every memory of the store was created by allocate_memory).
C15_MemoryPages ==
    input.module.imports = <<>> =>
        \A i \in 1..Len(store.memories) :
            LET m == store.memories[i]
            IN  /\ Len(m.data) = m.memory_type[1].min * 65536
                /\ \A j \in 1..Len(m.data) : m.data[j] = 0

\* C16: every table instance of the store, declared by a module or supplied
\* as an import, holds at least limit.min and at most limit.max references
\* (an imported table that does not is rejected before it reaches the store).
C16_TableLimits ==
    \A i \in 1..Len(store.tables) :
        LET t == store.tables[i]
        IN  /\ Len(t.elem) >= t.table_type.limit.min
            /\ Len(t.elem) <= t.table_type.limit.max

SameName(d, s) == s.module = d.module /\ s.name = d.name

SameKind(d, s) ==
    <<s.value[1], d.description[1]>> \in
        {<<"Func", "Func">>, <<"Table", "Table">>, <<"Memory", "Mem">>,
         <<"Global", "Global">>}

\* C17: Interpreter::new returns an error when the number of supplied
\* imports differs from the number of declared ones, when a declared import
\* has no supplied import of its (module, name), or when the supplied
\* imports of its name are all of another kind; when it succeeds, the
\* declared imports are matched one-to-one with supplied imports of the same
\* name and kind.
C17_ImportsMatched ==
    pc = "interpreter" =>
        LET D == input.module.imports
            S == input.imports
        IN  /\ Len(D) # Len(S) => outcome = "err"
            /\ (\E i \in 1..Len(D) : \A j \in 1..Len(S) : ~SameName(D[i], S[j]))
                  => outcome = "err"
            /\ (\E i \in 1..Len(D) :
                    \A j \in 1..Len(S) : SameName(D[i], S[j]) => ~SameKind(D[i], S[j]))
                  => outcome = "err"
            /\ outcome = "ok" =>
                  \E m \in [1..Len(D) -> 1..Len(S)] :
                      /\ \A i, j \in 1..Len(D) : i # j => m[i] # m[j]
                      /\ \A i \in 1..Len(D) :
                            SameName(D[i], S[m[i]]) /\ SameKind(D[i], S[m[i]])

\* two imports were declared and two supplied, the second one under another
\* name: Interpreter::new returned an error
C17_Witness ==
    /\ pc = "interpreter"
    /\ outcome = "err"
    /\ Len(input.module.imports) = 2
    /\ Len(input.imports) = 2
    /\ SameName(input.module.imports[1], input.imports[1])
    /\ \A j \in 1..2 : ~SameName(input.module.imports[2], input.imports[j])

\* the entry of an array of the store was supplied as an import
Imported(array, entry) ==
    CASE array = "functions" -> entry.variant = "Host"
      [] array = "tables" ->
            \E k \in 1..Len(input.imports) : input.imports[k].value = <<"Table", entry.elem>>
      [] array = "memories" ->
            \E k \in 1..Len(input.imports) : input.imports[k].value = <<"Memory", entry.data>>
      [] array = "globals" ->
            \E k \in 1..Len(input.imports) : input.imports[k].value = <<"Global", entry.value>>

\* the number of imports of a kind that the module declares
DeclaredImports(kind) ==
    Cardinality({i \in 1..Len(input.module.imports) :
                    input.module.imports[i].description[1] = kind})

ImportKind(array) ==
    CASE array = "functions" -> "Func"
      [] array = "tables" -> "Table"
      [] array = "memories" -> "Mem"
      [] array = "globals" -> "Global"

\* C18: in the module instance of a successful instantiation, each of the
\* address vectors of functions, tables, memories and globals lists the
\* imported items first and the items the module declares after them.
C18_ImportsFirst ==
    (pc # "start" /\ outcome = "ok" /\ input.module.imports # <<>>) =>
        \A k \in {"functions", "tables", "memories", "globals"} :
            LET addrs == LastInstance[AddrField(k)]
            IN  \A i \in 1..Len(addrs) :
                    (i <= DeclaredImports(ImportKind(k)))
                        <=> Imported(k, store[k][addrs[i] + 1])

\* a module without imports, instantiated without imports, whose functions
\* have a valid type and whose global has its initial value exports its
\* function 0
ExportsOwnFunction ==
    /\ input.module.imports = <<>>
    /\ input.imports = <<>>
    /\ input.module.functions # <<>>
    /\ \A i \in 1..Len(input.module.functions) :
          input.module.functions[i].type_index < Len(input.module.types)
    /\ Len(input.module.globals) = Len(input.initial_global_values)
    /\ Len(input.module.exports) = 1
    /\ input.module.exports[1].description = <<"Func", 0>>

\* C19: a successful instantiation records for every export its name and
\* the entry of the address vector of its kind at the export's index,
\* counted over imports and declared items alike; a module without imports
\* that exports its own function 0 instantiates successfully.
C19_ExportsResolved ==
    pc # "start" =>
        /\ ExportsOwnFunction => outcome = "ok"
        /\ outcome = "ok" =>
              /\ Len(LastInstance.exports) = Len(input.module.exports)
              /\ \A j \in 1..Len(input.module.exports) :
                    LET e == input.module.exports[j]
                        f == export_field(e.description[1])
                    IN  LastInstance.exports[j] =
                            [name |-> e.name,
                             value |-> <<f[2], LastInstance[f[1]][e.description[2] + 1]>>]

\* C20: the module instance kept inside every local function instance has
\* the address lists of the module instance that the instantiation returned.
C20_EnclosingInstance ==
    \A k \in 1..Len(module_instances) :
        LET mi == module_instances[k]
        IN  \A i \in 1..Len(mi.function_addrs) :
                LET f == store.functions[mi.function_addrs[i] + 1]
                IN  f.variant = "Local" =>
                        \A a \in StoreArrays : f.module[AddrField(a)] = mi[AddrField(a)]

\* the number of 7-bit groups that hold every set bit of x, at least one:
\* ceil(max(bitlen(x), 1) / 7)
MinimalLen(x) ==
    CHOOSE n \in 1..MAX_LEB128_LEN_32 :
        /\ \A k \in 1..W32 : x[k] = 1 => k <= 7 * n
        /\ \A m \in 1..(n - 1) : \E k \in 1..W32 : x[k] = 1 /\ k > 7 * m

\* C30: write_u32 returns the minimal encoding length n and changes only
\* the first n bytes of the buffer; on a buffer shorter than that length it
\* returns an error and leaves every byte as it was; on a buffer of at least
\* 5 bytes it never returns an error.
C30_WriteFrame ==
    pc = "write_u32" =>
        /\ Len(wr.buf) = Len(buf)
        /\ IF Len(buf) < MinimalLen(input.val)
           THEN ~wr.ok /\ wr.buf = buf
           ELSE /\ wr.ok
                /\ wr.n = MinimalLen(input.val)
                /\ \A i \in (wr.n + 1)..Len(buf) : wr.buf[i] = buf[i]
        /\ (Len(buf) >= MAX_LEB128_LEN_32 => wr.ok)

\* a value of three groups refused by a buffer of two bytes that are not zero
C30_Witness ==
    /\ pc = "write_u32"
    /\ MinimalLen(input.val) = 3
    /\ buf = <<255, 255>>
    /\ ~wr.ok

\* the methods parse_vec is called with: the body of a vector loop
VecItems ==
    {"Parser_read_u32", "read_u8", "parse_value_type", "parse_function_type",
     "parse_import", "parse_table_type", "parse_memory_type", "parse_global",
     "parse_export", "parse_element_segement", "parse_expression",
     "parse_local", "parse_code", "parse_data_segment"}

\* one turn of the loop of parse_expression or parse_if_else at cursor c
ExpressionTurn(b, c) ==
    (LET opcode == Parser("read_u8", b, c, <<>>) IN
    IF opcode.st # "ok" \/ opcode.val = TERM_END_BYTE THEN opcode
    ELSE Parser("parse_instruction", b, opcode.cur, opcode.val))

\* a turn that starts at cursor c and gives r stays inside the buffer and,
\* unless it returns an error, has consumed a byte
Advances(b, c, r) ==
    /\ c <= r.cur
    /\ r.cur <= Len(b)
    /\ (r.st # "err" => c < r.cur)

\* the inputs whose loops are tried turn by turn at every cursor: a module
\* of several sections has the loops of each of its sections
LoopsOf(i) == i.kind \in {"preamble", "sections"} => Len(i.secs) <= 1

\* C27: the cursor of the decoder never decreases and never exceeds the
\* length of the buffer, and every turn of the section loop, of an
\* expression or if-body loop and of a vector loop returns an error or
\* advances the cursor by at least one byte.
C27_CursorAdvances ==
    [][/\ cursor <= cursor'
       /\ cursor' <= Len(buf')
       /\ (pc = "sections" /\ cursor < Len(buf) => (outcome' = "err" \/ cursor < cursor'))
       /\ (pc = "new" /\ LoopsOf(input) =>
              \A c \in 0..Len(buf) :
                  /\ Advances(buf, c, ExpressionTurn(buf, c))
                  /\ \A m \in VecItems : Advances(buf, c, Parser(m, buf, c, <<>>)))]_vars

\* a module of two sections decoded to its end
C27_Witness ==
    /\ pc = "done"
    /\ outcome = "ok"
    /\ Len(sections) = 2
    /\ cursor = Len(buf)

(***************************************************************************)
(* Properties of the interpreter.                                          *)
(***************************************************************************)
\* the function an input names, when its address is one of the store
Invoked == store.functions[input.function_addr + 1]

\* a step of invoke, of invoke_function_call, of invoke_expression
InvokeStep == calls' = calls + 1
CallStep == pc' \in {"called", "aborted"} /\ calls' = calls
ExecuteStep == pc' = "executed"

\* the n entries on top of a stack, in the order they were pushed
Top(st, n) == SubSeq(st, Len(st) - n + 1, Len(st))

\* the entries of a stack that are not values
Frames(st) == {k \in 1..Len(st) : st[k].entry # "Value"}

\* C21: invoke of a local function with well-typed arguments runs the body
\* until the activation is popped and returns |results| values computed by
\* the body: add(7, 35) returns [42].
C21_InvokeRuns ==
    (pc = "invoked" /\ outcome = "ok") =>
        /\ Len(rd.val) = Len(Invoked.function_type[2])
        /\ Frames(stack) = {}
        /\ (input.function_addr = 0
               /\ input.args = <<I32(IntBits(7, W32)), I32(IntBits(35, W32))>>
            => rd.val = <<I32(IntBits(42, W32))>>)

\* the value type whose tag a value carries: a null reference is of both
\* reference types
HasType(value, value_type) ==
    IF value.tag = "Ref"
    THEN \/ value_type \in {"FuncRef", "ExternRef"} /\ value.v = Null
         \/ value_type = "FuncRef" /\ value.v[1] = FunctionAddr(0)[1]
         \/ value_type = "ExternRef" /\ value.v[1] = RefExtern(0)[1]
    ELSE value.tag = value_type

\* the arguments of the input do not fit the function at its address
BadInvocation ==
    \/ ~(input.function_addr < Len(store.functions))
    \/ Len(input.args) # Len(Invoked.function_type[1])
    \/ \E i \in 1..Len(input.args) : ~HasType(input.args[i], Invoked.function_type[1][i])

\* C22: invoke returns an error, pushes nothing on the stack and changes
\* nothing in the store when the function address is not an index of the
\* function array, when the number of arguments differs from the number of
\* parameters, or when the tag of an argument differs from the type of its
\* parameter.
C22_InvokeRejects ==
    [][(InvokeStep /\ BadInvocation) =>
          (outcome' = "err" /\ stack' = stack /\ store' = store)]_vars

\* C23: after a successful invocation, and after any sequence of them, the
\* stack is as deep as before the invocation, with the arguments on it,
\* minus |params| plus |results|: no activation, label or argument pushed
\* for the invocation is left.
C23_StackDiscipline ==
    [][(InvokeStep /\ outcome' = "ok") =>
          /\ Len(stack') = Len(stack) + Len(input.args)
                              - Len(Invoked.function_type[1]) + Len(Invoked.function_type[2])
          /\ Frames(stack') = Frames(stack)]_vars

\* the digits of a sequence of column sums carried over in base 2, from
\* column j on with carry c into it; the carry out of the last is dropped
RECURSIVE Reduced(_, _, _)
Reduced(columns, j, c) ==
    IF j > Len(columns) THEN <<>>
    ELSE <<(columns[j] + c) % 2>> \o Reduced(columns, j + 1, (columns[j] + c) \div 2)

\* the number of pairs of set bits a[i], b[j + 1 - i] for i in 1..n
RECURSIVE Pairs(_, _, _, _)
Pairs(a, b, j, n) ==
    IF n = 0 THEN 0 ELSE a[n] * b[j + 1 - n] + Pairs(a, b, j, n - 1)

\* (a + b) mod 2^N and (a * b) mod 2^N of two N-bit vectors
SumMod(a, b) == Reduced([k \in 1..Len(a) |-> a[k] + b[k]], 1, 0)
ProductMod(a, b) == Reduced([k \in 1..Len(a) |-> Pairs(a, b, k, k)], 1, 0)

\* r is (a op b) mod 2^N; a - b is the one r with r + b = a
IsResult(op, r, a, b) ==
    CASE op \in {"I32Add", "I64Add"} -> r = SumMod(a, b)
      [] op \in {"I32Sub", "I64Sub"} -> SumMod(r, b) = a
      [] op \in {"I32Mul", "I64Mul"} -> r = ProductMod(a, b)

\* the stack holds two values of the operand type of op on top
TwoOperands(st, op) ==
    /\ Len(st) >= 2
    /\ \A k \in {Len(st) - 1, Len(st)} :
           st[k].entry = "Value" /\ st[k].value.tag = operand_type(op)

\* the expression run is the one instruction op
Runs(ops) == Len(input.expression) = 1 /\ input.expression[1].op \in ops

\* C24: add, sub and mul of i32 and i64, run on a stack with a pushed first
\* and b pushed last, succeed for every pair and replace the two operands by
\* one value of the same type, (a op b) mod 2^N: sub leaves first-pushed
\* minus last-pushed.
C24_WrappingArithmetic ==
    [][(/\ ExecuteStep
        /\ Runs({"I32Add", "I32Sub", "I32Mul", "I64Add", "I64Sub", "I64Mul"})
        /\ TwoOperands(stack, input.expression[1].op)) =>
          /\ outcome' = "ok"
          /\ Len(stack') = Len(stack) - 1
          /\ SubSeq(stack', 1, Len(stack) - 2) = SubSeq(stack, 1, Len(stack) - 2)
          /\ stack'[Len(stack')].entry = "Value"
          /\ stack'[Len(stack')].value.tag = operand_type(input.expression[1].op)
          /\ IsResult(input.expression[1].op, stack'[Len(stack')].value.v,
                      stack[Len(stack) - 1].value.v, stack[Len(stack)].value.v)]_vars

\* i32.sub has run on i32::MIN pushed first and 1 pushed last and left
\* i32::MAX
C24_Witness ==
    /\ pc = "executed"
    /\ outcome = "ok"
    /\ input.expression = <<Instr("I32Sub", <<>>)>>
    /\ input.args = <<I32(I32_MIN), I32(IntBits(1, W32))>>
    /\ stack[Len(stack)] = Entry_Value(I32(I32_MAX))

\* the instructions that divide, by the type of their operands
DivRem32 == {"I32DivSigned", "I32DivUnsigned", "I32RemainderSigned", "I32RemainderUnsigned"}
DivRem64 == {"I64DivSigned", "I64DivUnsigned", "I64RemainderSigned", "I64RemainderUnsigned"}

\* the stack holds a pushed first and b pushed last, both of tag t, and op
\* on them traps: b is zero, or op is div_s of the least integer by -1
Traps(st, op, t) ==
    /\ Len(st) >= 2
    /\ \A k \in {Len(st) - 1, Len(st)} : st[k].entry = "Value" /\ st[k].value.tag = t
    /\ LET a == st[Len(st) - 1].value.v
           b == st[Len(st)].value.v
       IN  \/ b = Zero(Len(b))
           \/ /\ op \in {"I32DivSigned", "I64DivSigned"}
              /\ b = Invert(Zero(Len(b)))
              /\ a = (IF t = "I32" THEN I32_MIN ELSE I64_MIN)

\* the first instruction of the expression run traps on the stack
FirstTraps ==
    /\ input.expression # <<>>
    /\ \/ input.expression[1].op \in DivRem32 /\ Traps(stack, input.expression[1].op, "I32")
       \/ input.expression[1].op \in DivRem64 /\ Traps(stack, input.expression[1].op, "I64")

\* C25: an expression whose div_s, div_u, rem_s or rem_u has a zero divisor,
\* or whose div_s divides the least integer by -1, does not return Ok, and
\* the instructions after the trapping one leave no trace: the stack is as
\* before, with or without the two operands.
C25_DivideTraps ==
    [][(ExecuteStep /\ FirstTraps) =>
          /\ outcome' # "ok"
          /\ stack' \in {stack, SubSeq(stack, 1, Len(stack) - 2)}]_vars

\* the default values of declared locals, a declaration of count n and type
\* t giving n values of t
RECURSIVE defaults_by_count(_)
defaults_by_count(locals) ==
    IF locals = <<>> THEN <<>>
    ELSE [k \in 1..Head(locals).count |-> Value_default(Head(locals).value_type)]
            \o defaults_by_count(Tail(locals))

\* the number of parameters and of results of the function of the input
NumParams == Len(Invoked.function_type[1])
NumResults == Len(Invoked.function_type[2])

\* the function of the input is a local one and the stack holds a value for
\* each of its parameters on top
Callable ==
    /\ input.function_addr < Len(store.functions)
    /\ Invoked.variant = "Local"
    /\ Len(stack) >= NumParams
    /\ \A k \in 1..NumParams : stack[Len(stack) - NumParams + k].entry = "Value"

\* C26: a call of a local function that returns Ok has popped |params|
\* arguments and pushed an activation and a label above the rest of the
\* stack: the locals of the activation are the arguments in parameter order
\* followed by the default value of every declared local, count values for a
\* declaration of that count, and the arity of the activation and of the
\* label is |results|.
C26_ActivationLocals ==
    [][(CallStep /\ Callable /\ outcome' = "ok") =>
          LET base == Len(stack) - NumParams
          IN  /\ Len(stack') >= base + 2
              /\ SubSeq(stack', 1, base) = SubSeq(stack, 1, base)
              /\ stack'[base + 1].entry = "Activation"
              /\ stack'[base + 1].frame.locals =
                     [k \in 1..NumParams |-> stack[base + k].value]
                         \o defaults_by_count(Invoked.code.locals)
              /\ stack'[base + 1].frame.arity = NumResults
              /\ stack'[base + 2].entry = "Label"
              /\ stack'[base + 2].label.arity = NumResults]_vars

\* the arms that compare: their declared result type is i32
Comparisons == {"I32Eq", "I32Ne", "I64EqZero", "I64Eq", "I64Ne", "F32Eq", "F32Ne"}

\* the result type the instruction set declares for op
ResultType(op) == IF op \in Comparisons THEN "I32" ELSE operand_type(op)

\* the stack holds a value of the operand type of op on top
OneOperand(st, op) ==
    /\ Len(st) >= 1
    /\ st[Len(st)].entry = "Value"
    /\ st[Len(st)].value.tag = operand_type(op)

\* C28: each of eq, ne, add, sub, mul, and, or, min, max that the
\* interpreter runs by popping two operands, run on a stack with two values
\* of its operand type on top, returns Ok with one value in their place: the
\* stack is one entry lower.
C28_BinaryDepth ==
    [][(/\ ExecuteStep
        /\ Runs(BinaryArms \cup {"I64Or"})
        /\ TwoOperands(stack, input.expression[1].op)) =>
          /\ outcome' = "ok"
          /\ Len(stack') = Len(stack) - 1
          /\ stack'[Len(stack')].entry = "Value"]_vars

\* C29: a unary or binary numeric instruction that returns Ok on operands
\* of its type leaves on top a value tagged with its declared result type:
\* i32 for the comparisons and eqz, the operand type for the others, i64.clz
\* and i64.ctz included.
C29_ResultTag ==
    [][(/\ ExecuteStep
        /\ Runs(UnaryArms \cup BinaryArms)
        /\ outcome' = "ok"
        /\ IF input.expression[1].op \in UnaryArms
           THEN OneOperand(stack, input.expression[1].op)
           ELSE TwoOperands(stack, input.expression[1].op)) =>
          /\ stack' # <<>>
          /\ stack'[Len(stack')].entry = "Value"
          /\ stack'[Len(stack')].value.tag = ResultType(input.expression[1].op)]_vars

====
